---- MODULE Spec2Model ----
(***************************************************************************)
(* A model of the PulsePoint sync core: the change queue                   *)
(* (internal/watchers/queue/change_queue.go), the sync engine's lifecycle  *)
(* (package sync, engine) and the local file watcher                       *)
(* (internal/watchers/local/watcher.go).                                   *)
(*                                                                         *)
(* Each component has its own specification over the shared variable       *)
(* list; the variables of the other components stay at their initial      *)
(* values.  Every action is one critical section (one lock region, one     *)
(* channel operation or one database transaction) of the Go code.          *)
(***************************************************************************)
EXTENDS Integers, Sequences, FiniteSets, TLC

\* ------------------------------------------------------------------ bounds
\* Event timestamps are drawn from 1..MaxTs.
MaxTs == 2
\* Mirror goroutines (go pulsePointPersistToDB) in flight at once, at most.
MaxPersist == 2
\* QueueConfig.MaxSize and QueueConfig.BatchSize, scaled down.
maxSize == 2
batchSize == 1
\* Start gets past its guard at most MaxStarts times.
MaxStarts == 2
\* fsnotify events the watcher's monitor receives, at most: MaxRaw where
\* files change and the watcher is stopped, MaxBurst in a burst on one path.
MaxRaw == 2
MaxBurst == 3
\* File contents hash to 1..MaxHash.
MaxHash == 2
\* Capacities of eventsChan and errorsChan, scaled down.
eventsCap == 2
errorsCap == 1
\* Nested calls of ResolveConflict the goroutine's stack has room for.
MaxDepth == 3
\* Sync calls of a strategy start in the seconds 1..MaxSecond.
MaxSecond == 1
\* uuid.New() draws transaction ids from 1..MaxTx, in any order.
MaxTx == 2
\* Syncs the metrics record, at most, and the speeds (MB/s) they ran at.
MaxSyncs == 3
MaxSpeed == 2

VARIABLES
    \* ---- change queue (PulsePointChangeQueue)
    items,            \* q.items: path -> pending event (NoEvent: absent)
    processingItems,  \* q.processingItems: paths being processed
    qpc,              \* position of the pulsePointProcessor goroutine
    batch,            \* pulsePointProcessBatch's local batch, by path
    flushErr,         \* pulsePointProcessBatch's local err # nil
    spawned,          \* mirror goroutines started, itemsCopy not yet taken
    snaps,            \* itemsCopy of the mirror goroutines waiting for db.Update
    bucket,           \* the "Queue" bucket: key -> marshalled event
    \* ---- history of the queue
    qlast,            \* the last queue operation and its outcome
    wanted,           \* per batch path: the survivor the deduplication table
                      \* names between the batch event and the events admitted
                      \* for that path during the flush
    epoch,            \* parity of the number of process restarts
    \* ---- shutdown of the queue (Stop)
    qctxDone,         \* q.cancel() has been called
    qexit,            \* pulsePointProcessor: "no", "final" (in its last batch),
                      \* "exited", and "stopped" once Stop has returned
    atStop,           \* history: q.items when Stop was called
    handed,           \* history: events passed to processFunc since then
    \* ---- conflict resolver (PulsePointConflictResolver)
    rpc,              \* "idle", "resolve" (inside ResolveConflict), "returned",
                      \* "overflow" (the goroutine's stack limit is exceeded)
    rcfg,             \* the resolver's configuration and the conflict's facts
    rdepth,           \* nested calls of ResolveConflict
    rres,             \* the Strategy of the resolution returned, or "none"
    \* ---- sync strategies and the object store
    files,            \* the provider's store: remote path -> content hash
    spc,              \* position inside Sync: "idle", "changes", "returned"
    sname,            \* the strategy whose Sync it is
    sts,              \* the second the Sync started in (backupTimestamp)
    slocal,           \* the paths of the local tree
    spreserve,        \* config.PreserveDeleted
    sres,             \* the SyncResult: Success, and whether Errors and
                      \* Conflicts hold anything
    sdel,             \* history: provider.Delete was called in this Sync
    slast,            \* history: the change processed last in this Sync
    \* ---- the state manager's transactions bucket
    txdb,             \* key (transaction id) -> stored bytes, or NoData
    tclean,           \* cleanupOldTransactions goroutines not yet run
    tpc,              \* the state manager call that returned last
    tsaved,           \* history: the transaction given to the last save
    tgot,             \* what the last GetTransaction returned
    tlist,            \* what the last ListTransactions returned (the ids)
    targs,            \* offset and limit of the last ListTransactions
    torder,           \* history: stored ids, least recently saved first
    \* ---- engine metrics (SyncMetrics)
    TotalSyncs,
    SuccessfulSyncs,
    FailedSyncs,
    AverageSpeed,     \* a fraction <<numerator, denominator>>
    observed,         \* what the last getMetrics returned
    speedSum,         \* history: sum of the speeds of the successful syncs
    speedCount,       \* history: successful syncs that had a speed
    \* ---- the watcher's ignore patterns
    ignorePatterns,   \* pw.ignorePatterns
    staleView,        \* what pw.ignorePatterns held before the last write
    armed,            \* paths with a debounce timer that has not fired
    lastEmit,         \* history: the path emitted last, and pw.ignorePatterns
                      \* at that moment
    handledAfter,     \* history: paths whose armed timer was set after the
                      \* last SetIgnorePatterns returned
    \* ---- sync engine (PulsePointEngine)
    isRunning,        \* e.isRunning
    isPaused,         \* e.isPaused
    stopClosed,       \* e.stopChan is closed
    pauseClosed,      \* the channel e.pauseChan names now is closed
    ctxDone,          \* the context given to Start is cancelled
    currentState,     \* e.currentState: CurrentOperation, IsRunning, IsPaused
    stateRow,         \* the "current" row SaveState wrote
    fault,            \* the panic that ended the process, or "none"
    cpc,              \* per calling goroutine: position in its engine call
    runs,             \* pairs of goroutines Start has spawned
    lpc,              \* per run: position of syncLoop
    lch,              \* per run: the pause channel syncLoop waits on
    mpc,              \* per run: position of monitorFileChanges
    \* ---- local file watcher (PulsePointWatcher)
    pwIsRunning,      \* pw.isRunning
    pwStopChanClosed, \* pw.stopChan is closed
    pwCtxGiven,       \* pw.ctx is the context Start was given, not the
                      \* constructor's
    pwOwnCancelled,   \* pw.cancel() was called (the constructor's context)
    pwGivenCancelled, \* the caller cancelled the context it gave to Start
    wspc,             \* position of the goroutine inside Stop
    wmon,             \* position of pulsePointMonitor and the event it holds
    timers,           \* every time.AfterFunc timer created: path, state
    debounceTimers,   \* pw.debounceTimers: path -> timer (0: absent)
    eventsChan,       \* buffer of pw.eventsChan
    eventsChanClosed, \* pw.eventsChan is closed
    errorsChan,       \* number of errors buffered in pw.errorsChan
    fsClosed,         \* pw.watcher (fsnotify) is closed
    pwStopped,        \* history: Stop got past its guard since the last Start
    pwFault,          \* the panic that ended the watcher's process, or "none"
    disk,             \* the file system: path -> hash of the content (0: no file)
    fileHashes,       \* pw.fileHashes: path -> cached hash (0: absent)
    emitted,          \* history: path -> hash of the last event emitted for it
    \* ---- sync pipeline (PulsePointPipeline) under Sync
    ppc,              \* position of the goroutine inside Sync
    pidx,             \* the phase the phase loop is at (0: none)
    pretry,           \* the retry loop's counter
    pctxDone,         \* the pipeline's context is cancelled or past its deadline
    prunning,         \* phases whose Execute has been called and has not returned
    pdone,            \* history: phases that returned a nil error
    pattempts,        \* history: per phase, calls of Execute
    pslept,           \* history: per phase, retry delays slept
    perr,             \* the phase named by the error Execute returned, or "none"
    tx,               \* the SyncTransaction in memory: status, end time set
    txStore,          \* the record SaveTransaction wrote
    \* ---- verification phase (VerificationPhase.Execute)
    vpc,              \* position of the phase's own goroutine
    vtodo,            \* entries of input.FileStates the range has not visited
    vstates,          \* input.FileStates: path -> status, local hash
    vremote,          \* what the provider's GetMetadata gives: path -> hash
    vgo,              \* per path, the position of its checking goroutine
    verifyErrors,
    vresult,          \* what the phase returned: "none", "ok", "fail"
    \* ---- file states (models.FileState)
    fileStates,       \* path -> status, local hash, remote hash, conflict flag
    \* ---- the engine's view of its watcher
    wUp,              \* the watcher is running
    wChClosed,        \* the watcher's event and error channels are closed
    \* ---- history of the engine
    elast             \* the last engine call: operation, outcome

qvars == <<items, processingItems, qpc, batch, flushErr, spawned, snaps,
           bucket, qlast, wanted, epoch>>

hvars == <<qctxDone, qexit, atStop, handed>>

rvars == <<rpc, rcfg, rdepth, rres>>

svars == <<files, spc, sname, sts, slocal, spreserve, sres, sdel, slast>>

tvars == <<txdb, tclean, tpc, tsaved, tgot, tlist, targs, torder>>

gvars == <<ignorePatterns, staleView, armed, lastEmit, handledAfter>>

mvars == <<TotalSyncs, SuccessfulSyncs, FailedSyncs, AverageSpeed, observed,
           speedSum, speedCount>>

evars == <<isRunning, isPaused, stopClosed, pauseClosed, ctxDone, currentState,
           stateRow, fault, cpc, runs, lpc, lch, mpc, wUp, wChClosed, elast>>

wvars == <<pwIsRunning, pwStopChanClosed, pwCtxGiven, pwOwnCancelled,
           pwGivenCancelled, wspc, wmon, timers, debounceTimers, eventsChan,
           eventsChanClosed, errorsChan, fsClosed, pwStopped, pwFault,
           disk, fileHashes, emitted>>

pvars == <<ppc, pidx, pretry, pctxDone, prunning, pdone, pattempts, pslept,
           perr, tx, txStore>>

vvars == <<vpc, vtodo, vstates, vremote, vgo, verifyErrors, vresult>>

fvars == <<fileStates>>

vars == <<qvars, evars, wvars, pvars, vvars, fvars, hvars, rvars, svars, tvars, mvars, gvars>>

\* ------------------------------------------------------------ change queue
Paths == {"a", "b"}
\* The paths the queue has entries for: one more than the events of the
\* specifications with the full alphabet name.
QueuePaths == Paths \cup {"c"}
Types == {"create", "modify", "delete"}

NoEvent == [path |-> "", type |-> "none", ts |-> 0]
Events == [path : Paths, type : Types, ts : 1..MaxTs]
\* The events of the durability specification: one timestamp.
PlainEvents == {e \in Events : e.ts = 1 /\ e.type # "modify"}
\* Creations of every path of the queue.
CreateEvents == {[path |-> p, type |-> "create", ts |-> 1] : p \in QueuePaths}

NoItems == [p \in QueuePaths |-> NoEvent]
PendingPaths(m) == {p \in QueuePaths : m[p] # NoEvent}
Min(a, b) == IF a < b THEN a ELSE b

\* json.Marshal / json.Unmarshal of a models.ChangeEvent: the value stored in
\* the bucket is the list of the event's fields.
NoEntry == <<>>
Marshal(e) == <<e.path, e.type, e.ts>>
Unmarshal(v) == [path |-> v[1], type |-> v[2], ts |-> v[3]]

\* pulsePointShouldReplace with rule 2 (Create + Modify keeps the Create) lost.
ShouldReplaceNoCreateRule(existing, new) ==
    IF new.type = "delete" THEN TRUE
    ELSE new.ts > existing.ts

pulsePointShouldReplace(existing, new) ==
    IF new.type = "delete" THEN TRUE
    ELSE IF existing.type = "create" /\ new.type = "modify" THEN FALSE
    ELSE IF existing.type = "modify" /\ new.type = "modify"
         THEN new.ts > existing.ts
    ELSE new.ts > existing.ts

\* The capacity check of Add written as len(q.items) > q.maxSize.
AtCapacityOffByOne(m) == Cardinality(PendingPaths(m)) > maxSize

AtCapacity(m) == Cardinality(PendingPaths(m)) >= maxSize

InFlight == spawned + Cardinality(snaps)

\* The survivor the deduplication table of the queue names; on equal
\* timestamps no event is newer and the existing one stays.
TableSurvivor(old, new) ==
    IF new.type = "delete" THEN new
    ELSE IF old.type = "create" /\ new.type = "modify" THEN old
    ELSE IF new.ts > old.ts THEN new ELSE old

\* Add(event).  cap bounds the mirror goroutines in flight.
Add(e, cap) ==
    /\ UNCHANGED <<evars, wvars, pvars, vvars, fvars, hvars, rvars, svars, tvars, mvars, gvars>>
    /\ InFlight < cap
    /\ IF AtCapacity(items)
       THEN /\ qlast' = <<"add", "full">>
            /\ UNCHANGED <<items, spawned, wanted>>
       ELSE IF e.path \in processingItems
       THEN /\ qlast' = <<"add", "skipped">>
            /\ wanted' = [wanted EXCEPT ![e.path] = TableSurvivor(@, e)]
            /\ UNCHANGED <<items, spawned>>
       ELSE /\ IF items[e.path] # NoEvent
               THEN IF pulsePointShouldReplace(items[e.path], e)
                    THEN /\ items' = [items EXCEPT ![e.path] = e]
                         /\ qlast' = <<"add", "replaced">>
                    ELSE /\ UNCHANGED items
                         /\ qlast' = <<"add", "kept">>
               ELSE /\ items' = [items EXCEPT ![e.path] = e]
                    /\ qlast' = <<"add", "new">>
            /\ spawned' = spawned + 1
            /\ UNCHANGED wanted
    /\ UNCHANGED <<processingItems, qpc, batch, flushErr, snaps, bucket, epoch>>

\* pulsePointProcessBatch, first critical section: move up to batchSize
\* entries from pending to processing.  final: the call is the one the
\* processor makes when it has seen q.ctx.Done().
TakeBatch(final) ==
    /\ UNCHANGED <<evars, wvars, pvars, vvars, fvars, rvars, svars, tvars, mvars, gvars>>
    /\ qpc = "idle"
    /\ qexit = "no"
    /\ final => qctxDone
    /\ PendingPaths(items) # {}
    /\ \E B \in SUBSET PendingPaths(items) :
         /\ Cardinality(B) = Min(batchSize, Cardinality(PendingPaths(items)))
         /\ batch' = [p \in QueuePaths |-> IF p \in B THEN items[p] ELSE NoEvent]
         /\ wanted' = [p \in QueuePaths |-> IF p \in B THEN items[p] ELSE NoEvent]
         /\ items' = [p \in QueuePaths |-> IF p \in B THEN NoEvent ELSE items[p]]
         /\ processingItems' = processingItems \cup B
         /\ handed' = IF qctxDone THEN handed \cup {items[p] : p \in B}
                      ELSE handed
    /\ qpc' = "process"
    /\ flushErr' = FALSE
    /\ qexit' = IF final THEN "final" ELSE qexit
    /\ qlast' = <<"flush", "taken">>
    /\ UNCHANGED <<spawned, snaps, bucket, epoch, qctxDone, atStop>>

\* The ticker fires and the processor calls pulsePointProcessBatch.
FlushTake == TakeBatch(FALSE)

\* The processor sees q.ctx.Done() and calls pulsePointProcessBatch once more.
FinalFlushTake == TakeBatch(TRUE)

\* processFunc(batch) returns nil.
FlushProcessOk ==
    /\ UNCHANGED <<evars, wvars, pvars, vvars, fvars, hvars, rvars, svars, tvars, mvars, gvars>>
    /\ qpc = "process"
    /\ qpc' = "unmark"
    /\ flushErr' = FALSE
    /\ qlast' = <<"flush", "processed">>
    /\ UNCHANGED <<items, processingItems, batch, spawned, snaps, bucket,
                   wanted, epoch>>

\* processFunc(batch) returns an error: the batch is written back to q.items.
FlushProcessFail ==
    /\ UNCHANGED <<evars, wvars, pvars, vvars, fvars, hvars, rvars, svars, tvars, mvars, gvars>>
    /\ qpc = "process"
    /\ qpc' = "unmark"
    /\ flushErr' = TRUE
    /\ items' = [p \in QueuePaths |-> IF batch[p] # NoEvent THEN batch[p] ELSE items[p]]
    /\ qlast' = <<"flush", "failed">>
    /\ UNCHANGED <<processingItems, batch, spawned, snaps, bucket, wanted, epoch>>

\* Last critical section of pulsePointProcessBatch: the batch leaves the
\* processing set and a mirror goroutine is started.
FlushUnmark(cap) ==
    /\ UNCHANGED <<evars, wvars, pvars, vvars, fvars, hvars, rvars, svars, tvars, mvars, gvars>>
    /\ qpc = "unmark"
    /\ InFlight < cap
    /\ processingItems' = processingItems \ PendingPaths(batch)
    /\ batch' = NoItems
    /\ wanted' = NoItems
    /\ flushErr' = FALSE
    /\ qpc' = "idle"
    /\ spawned' = spawned + 1
    /\ qlast' = <<"flush", IF flushErr THEN "restored" ELSE "done">>
    /\ UNCHANGED <<items, snaps, bucket, epoch>>

\* pulsePointPersistToDB, first half: copy q.items under the read lock.
PersistSnapshot ==
    /\ UNCHANGED <<evars, wvars, pvars, vvars, fvars, hvars, rvars, svars, tvars, mvars, gvars>>
    /\ spawned > 0
    /\ spawned' = spawned - 1
    /\ snaps' = snaps \cup {items}
    /\ qlast' = <<"persist", "copied">>
    /\ UNCHANGED <<items, processingItems, qpc, batch, flushErr, bucket,
                   wanted, epoch>>

\* What one mirror transaction leaves in the bucket.
Mirror(m) == [p \in QueuePaths |-> IF m[p] # NoEvent THEN Marshal(m[p]) ELSE NoEntry]

\* pulsePointPersistToDB, second half: one db.Update that drops the bucket
\* and writes the copy.
PersistWrite ==
    /\ UNCHANGED <<evars, wvars, pvars, vvars, fvars, hvars, rvars, svars, tvars, mvars, gvars>>
    /\ \E s \in snaps :
         /\ snaps' = snaps \ {s}
         /\ bucket' = Mirror(s)
    /\ qlast' = <<"persist", "written">>
    /\ UNCHANGED <<items, processingItems, qpc, batch, flushErr, spawned,
                   wanted, epoch>>

\* pulsePointLoadFromDB: every entry of the bucket is unmarshalled and stored
\* under the path it names.
pulsePointLoadFromDB(b) ==
    [p \in QueuePaths |->
        IF \E k \in QueuePaths : b[k] # NoEntry /\ Unmarshal(b[k]).path = p
        THEN Unmarshal(b[CHOOSE k \in QueuePaths :
                            b[k] # NoEntry /\ Unmarshal(b[k]).path = p])
        ELSE NoEvent]

\* The process is killed and started again: NewPulsePointChangeQueue builds a
\* fresh queue from the bucket and Start runs its processor.
KillRestart ==
    /\ UNCHANGED <<evars, wvars, pvars, vvars, fvars, hvars, rvars, svars, tvars, mvars, gvars>>
    /\ items' = pulsePointLoadFromDB(bucket)
    /\ processingItems' = {}
    /\ qpc' = "idle"
    /\ batch' = NoItems
    /\ wanted' = NoItems
    /\ flushErr' = FALSE
    /\ spawned' = 0
    /\ snaps' = {}
    /\ epoch' = 1 - epoch
    /\ qlast' = <<"restart", "loaded">>
    /\ UNCHANGED bucket

\* The processor sees q.ctx.Done() with nothing pending: the batch call
\* returns at once and the processor returns.
ProcessorExitEmpty ==
    /\ qctxDone
    /\ qexit = "no"
    /\ qpc = "idle"
    /\ PendingPaths(items) = {}
    /\ qexit' = "exited"
    /\ UNCHANGED <<qctxDone, atStop, handed>>
    /\ UNCHANGED <<qvars, evars, wvars, pvars, vvars, fvars, rvars, svars, tvars, mvars, gvars>>

\* The processor returns after its last batch.
ProcessorExit ==
    /\ qexit = "final"
    /\ qpc = "idle"
    /\ qexit' = "exited"
    /\ UNCHANGED <<qctxDone, atStop, handed>>
    /\ UNCHANGED <<qvars, evars, wvars, pvars, vvars, fvars, rvars, svars, tvars, mvars, gvars>>

\* Stop, first line: q.cancel().
QueueStopCancel ==
    /\ ~qctxDone
    /\ qctxDone' = TRUE
    /\ atStop' = items
    /\ UNCHANGED <<qexit, handed>>
    /\ UNCHANGED <<qvars, evars, wvars, pvars, vvars, fvars, rvars, svars, tvars, mvars, gvars>>

\* Stop, after q.wg.Wait(): pulsePointPersistToDB and return.
QueueStopReturn ==
    /\ qexit = "exited"
    /\ qexit' = "stopped"
    /\ bucket' = Mirror(items)
    /\ qlast' = <<"stop", "returned">>
    /\ UNCHANGED <<items, processingItems, qpc, batch, flushErr, spawned,
                   snaps, wanted, epoch>>
    /\ UNCHANGED <<qctxDone, atStop, handed>>
    /\ UNCHANGED <<evars, wvars, pvars, vvars, fvars, rvars, svars, tvars, mvars, gvars>>

QueueInit ==
    /\ items = NoItems
    /\ processingItems = {}
    /\ qpc = "idle"
    /\ batch = NoItems
    /\ flushErr = FALSE
    /\ spawned = 0
    /\ snaps = {}
    /\ bucket = Mirror(NoItems)
    /\ qlast = <<"new", "loaded">>
    /\ wanted = NoItems
    /\ epoch = 0
    /\ qctxDone = FALSE
    /\ qexit = "no"
    /\ atStop = NoItems
    /\ handed = {}

\* -------------------------------------------------------------- sync engine
Callers == {"c1", "c2"}
Runs == 1..MaxStarts

NoCall == <<"-", "-">>
StopPanic == "Stop: close of closed channel"
PausePanic == "Pause: close of closed channel"
WatcherPanic == "watcher.Stop: close of closed channel"

\* saveState writing a row that always says running.
SavedRowAlwaysRunning(st) == [op |-> st.op, running |-> TRUE]

\* What saveState hands to SaveState: CurrentOperation and IsRunning.
SavedRow(st) == [op |-> st.op, running |-> st.running]

\* The engine's steps that change neither the queue nor (unless named) the
\* watcher side.
EngineOnly == UNCHANGED <<qvars, wvars, pvars, vvars, fvars, hvars, rvars, svars, tvars, mvars, gvars>>

\* Start's guard: the call is refused when the engine is running.
StartGuard == isRunning

\* Pause's checks without the isPaused test.
PauseErrorNoPausedTest ==
    IF ~isRunning THEN "not_running" ELSE "ok"

\* Pause's checks: "ok" or the error.
PauseError ==
    IF ~isRunning THEN "not_running"
    ELSE IF isPaused THEN "already_paused"
    ELSE "ok"

\* Resume's checks: "ok" or the error.
ResumeError ==
    IF ~isRunning THEN "not_running"
    ELSE IF ~isPaused THEN "not_paused"
    ELSE "ok"

StartsInFlight == Cardinality({t \in Callers : cpc[t] = "startWatch"})

\* Start, first critical section.
StartCall(t) ==
    /\ fault = "none" /\ cpc[t] = "idle"
    /\ IF StartGuard
       THEN /\ elast' = <<"start", "already_running">>
            /\ UNCHANGED <<isRunning, isPaused, cpc>>
       ELSE /\ runs + StartsInFlight < MaxStarts
            /\ isRunning' = TRUE
            /\ isPaused' = FALSE
            /\ cpc' = [cpc EXCEPT ![t] = "startWatch"]
            /\ elast' = <<"start", "accepted">>
    /\ UNCHANGED <<stopClosed, pauseClosed, ctxDone, currentState, stateRow,
                   fault, runs, lpc, lch, mpc, wUp, wChClosed>>
    /\ EngineOnly

\* Start: e.watcher.Start, then go e.syncLoop and go e.monitorFileChanges.
\* The watcher refuses to start while it is running.
StartWatcher(t) ==
    /\ fault = "none" /\ cpc[t] = "startWatch"
    /\ IF wUp
       THEN /\ isRunning' = FALSE
            /\ cpc' = [cpc EXCEPT ![t] = "idle"]
            /\ UNCHANGED <<runs, lpc, lch, mpc, wUp>>
       ELSE /\ wUp' = TRUE
            /\ runs' = runs + 1
            /\ lpc' = [lpc EXCEPT ![runs + 1] = "select"]
            /\ lch' = [lch EXCEPT ![runs + 1] = "cur"]
            /\ mpc' = [mpc EXCEPT ![runs + 1] = "select"]
            /\ cpc' = [cpc EXCEPT ![t] = "startState"]
            /\ UNCHANGED isRunning
    /\ elast' = NoCall
    /\ UNCHANGED <<isPaused, stopClosed, pauseClosed, ctxDone, currentState,
                   stateRow, fault, wChClosed>>
    /\ EngineOnly

\* Start: currentState.StartOperation("sync_engine_running"); saveState().
StartState(t) ==
    /\ fault = "none" /\ cpc[t] = "startState"
    /\ currentState' = [op |-> "sync_engine_running", running |-> TRUE,
                        paused |-> FALSE]
    /\ stateRow' = SavedRow(currentState')
    /\ cpc' = [cpc EXCEPT ![t] = "idle"]
    /\ elast' = NoCall
    /\ UNCHANGED <<isRunning, isPaused, stopClosed, pauseClosed, ctxDone, fault,
                   runs, lpc, lch, mpc, wUp, wChClosed>>
    /\ EngineOnly

\* Stop, first critical section: nothing to do unless running.
StopCall(t) ==
    /\ fault = "none" /\ cpc[t] = "idle"
    /\ IF ~isRunning
       THEN /\ elast' = <<"stop", "not_running">>
            /\ UNCHANGED cpc
       ELSE /\ elast' = <<"stop", "accepted">>
            /\ cpc' = [cpc EXCEPT ![t] = "stopClose"]
    /\ UNCHANGED <<isRunning, isPaused, stopClosed, pauseClosed, ctxDone,
                   currentState, stateRow, fault, runs, lpc, lch, mpc, wUp,
                   wChClosed>>
    /\ EngineOnly

\* Stop: close(e.stopChan); closing a closed channel panics.
StopClose(t) ==
    /\ fault = "none" /\ cpc[t] = "stopClose"
    /\ IF stopClosed
       THEN /\ fault' = StopPanic
            /\ UNCHANGED <<stopClosed, cpc>>
       ELSE /\ stopClosed' = TRUE
            /\ cpc' = [cpc EXCEPT ![t] = "stopWatch"]
            /\ UNCHANGED fault
    /\ elast' = NoCall
    /\ UNCHANGED <<isRunning, isPaused, pauseClosed, ctxDone, currentState,
                   stateRow, runs, lpc, lch, mpc, wUp, wChClosed>>
    /\ EngineOnly

\* Stop: e.watcher.Stop(), which closes the watcher's channels (once).
StopWatcher(t) ==
    /\ fault = "none" /\ cpc[t] = "stopWatch"
    /\ IF wUp
       THEN IF wChClosed
            THEN /\ fault' = WatcherPanic
                 /\ UNCHANGED <<wUp, wChClosed, cpc>>
            ELSE /\ wUp' = FALSE
                 /\ wChClosed' = TRUE
                 /\ cpc' = [cpc EXCEPT ![t] = "stopFlags"]
                 /\ UNCHANGED fault
       ELSE /\ cpc' = [cpc EXCEPT ![t] = "stopFlags"]
            /\ UNCHANGED <<wUp, wChClosed, fault>>
    /\ elast' = NoCall
    /\ UNCHANGED <<isRunning, isPaused, stopClosed, pauseClosed, ctxDone,
                   currentState, stateRow, runs, lpc, lch, mpc>>
    /\ EngineOnly

\* Stop, second critical section: the flags are cleared.
StopFlags(t) ==
    /\ fault = "none" /\ cpc[t] = "stopFlags"
    /\ isRunning' = FALSE
    /\ isPaused' = FALSE
    /\ cpc' = [cpc EXCEPT ![t] = "stopState"]
    /\ elast' = NoCall
    /\ UNCHANGED <<stopClosed, pauseClosed, ctxDone, currentState, stateRow,
                   fault, runs, lpc, lch, mpc, wUp, wChClosed>>
    /\ EngineOnly

\* Stop: currentState.EndOperation(true); saveState().
StopState(t) ==
    /\ fault = "none" /\ cpc[t] = "stopState"
    /\ currentState' = [currentState EXCEPT !.op = "", !.running = FALSE]
    /\ stateRow' = SavedRow(currentState')
    /\ cpc' = [cpc EXCEPT ![t] = "idle"]
    /\ elast' = NoCall
    /\ UNCHANGED <<isRunning, isPaused, stopClosed, pauseClosed, ctxDone, fault,
                   runs, lpc, lch, mpc, wUp, wChClosed>>
    /\ EngineOnly

\* Pause, one critical section: the flag, close(e.pauseChan), saveState().
Pause(t) ==
    /\ fault = "none" /\ cpc[t] = "idle"
    /\ IF PauseError # "ok"
       THEN /\ elast' = <<"pause", PauseError>>
            /\ UNCHANGED <<isPaused, pauseClosed, currentState, stateRow, fault>>
       ELSE /\ isPaused' = TRUE
            /\ IF pauseClosed
               THEN /\ fault' = PausePanic
                    /\ elast' = <<"pause", "panic">>
                    /\ UNCHANGED <<pauseClosed, currentState, stateRow>>
               ELSE /\ pauseClosed' = TRUE
                    /\ currentState' = [currentState EXCEPT !.paused = TRUE]
                    /\ stateRow' = SavedRow(currentState')
                    /\ elast' = <<"pause", "ok">>
                    /\ UNCHANGED fault
    /\ UNCHANGED <<isRunning, stopClosed, ctxDone, cpc, runs, lpc, lch, mpc, wUp,
                   wChClosed>>
    /\ EngineOnly

\* Resume, one critical section: the flag, a new e.pauseChan, saveState().
\* The loops that wait on the channel e.pauseChan named keep that channel.
Resume(t) ==
    /\ fault = "none" /\ cpc[t] = "idle"
    /\ IF ResumeError # "ok"
       THEN /\ elast' = <<"resume", ResumeError>>
            /\ UNCHANGED <<isPaused, pauseClosed, currentState, stateRow, lch>>
       ELSE /\ isPaused' = FALSE
            /\ pauseClosed' = FALSE
            /\ lch' = [r \in Runs |->
                         IF lpc[r] \in {"select", "waitRecv"} THEN "old"
                         ELSE lch[r]]
            /\ currentState' = [currentState EXCEPT !.paused = FALSE]
            /\ stateRow' = SavedRow(currentState')
            /\ elast' = <<"resume", "ok">>
    /\ UNCHANGED <<isRunning, stopClosed, ctxDone, fault, cpc, runs, lpc, mpc,
                   wUp, wChClosed>>
    /\ EngineOnly

\* Sync called by a user goroutine: the isRunning check under the read lock.
SyncCall(t) ==
    /\ fault = "none" /\ cpc[t] = "idle"
    /\ IF ~isRunning
       THEN /\ elast' = <<"sync", "not_running">>
            /\ UNCHANGED cpc
       ELSE /\ elast' = <<"sync", "accepted">>
            /\ cpc' = [cpc EXCEPT ![t] = "syncCreate"]
    /\ UNCHANGED <<isRunning, isPaused, stopClosed, pauseClosed, ctxDone,
                   currentState, stateRow, fault, runs, lpc, lch, mpc, wUp,
                   wChClosed>>
    /\ EngineOnly

\* Sync: createTransaction, a transaction in status Running.
SyncCreate(t) ==
    /\ fault = "none" /\ cpc[t] = "syncCreate"
    /\ cpc' = [cpc EXCEPT ![t] = "syncExec"]
    /\ elast' = NoCall
    /\ UNCHANGED <<isRunning, isPaused, stopClosed, pauseClosed, ctxDone,
                   currentState, stateRow, fault, runs, lpc, lch, mpc, wUp,
                   wChClosed>>
    /\ EngineOnly

\* Sync: pipeline.Execute returns and the transaction is closed and saved.
SyncFinish(t) ==
    /\ fault = "none" /\ cpc[t] = "syncExec"
    /\ cpc' = [cpc EXCEPT ![t] = "idle"]
    /\ elast' = NoCall
    /\ UNCHANGED <<isRunning, isPaused, stopClosed, pauseClosed, ctxDone,
                   currentState, stateRow, fault, runs, lpc, lch, mpc, wUp,
                   wChClosed>>
    /\ EngineOnly

\* The caller of Start cancels the context.
CancelCtx ==
    /\ fault = "none" /\ ~ctxDone
    /\ ctxDone' = TRUE
    /\ elast' = NoCall
    /\ UNCHANGED <<isRunning, isPaused, stopClosed, pauseClosed, currentState,
                   stateRow, fault, cpc, runs, lpc, lch, mpc, wUp, wChClosed>>
    /\ EngineOnly

\* ---- syncLoop of run r
LoopMoves(r, to, ch) ==
    /\ lpc' = [lpc EXCEPT ![r] = to]
    /\ lch' = [lch EXCEPT ![r] = ch]
    /\ elast' = NoCall
    /\ UNCHANGED <<isRunning, isPaused, stopClosed, pauseClosed, ctxDone,
                   currentState, stateRow, fault, cpc, runs, mpc, wUp, wChClosed>>
    /\ EngineOnly

\* The channel the loop holds is closed: an earlier channel of e.pauseChan
\* (Resume replaces only closed channels) or the present one once closed.
HeldClosed(r) == lch[r] = "old" \/ pauseClosed

\* select: case <-ctx.Done() / case <-e.stopChan.
LoopExit(r) ==
    /\ fault = "none" /\ lpc[r] = "select"
    /\ ctxDone \/ stopClosed
    /\ LoopMoves(r, "done", "cur")

\* select: case <-e.pauseChan, the channel read when the select began.
LoopSelectPause(r) ==
    /\ fault = "none" /\ lpc[r] = "select"
    /\ HeldClosed(r)
    /\ LoopMoves(r, "waitEval", "cur")

\* "<-e.pauseChan" inside the case: e.pauseChan is read again.
LoopWaitEval(r) ==
    /\ fault = "none" /\ lpc[r] = "waitEval"
    /\ LoopMoves(r, "waitRecv", "cur")

\* The receive returns once that channel is closed; the loop selects again.
LoopWaitRecv(r) ==
    /\ fault = "none" /\ lpc[r] = "waitRecv"
    /\ HeldClosed(r)
    /\ LoopMoves(r, "select", "cur")

\* select: case <-ticker.C.
LoopSelectTick(r) ==
    /\ fault = "none" /\ lpc[r] = "select"
    /\ LoopMoves(r, "tick", "cur")

\* The tick reads e.isPaused under the read lock; a paused tick is dropped.
LoopTick(r) ==
    /\ fault = "none" /\ lpc[r] = "tick"
    /\ LoopMoves(r, IF isPaused THEN "select" ELSE "syncCheck", "cur")

\* e.Sync called by the loop: the isRunning check.
LoopSyncCheck(r) ==
    /\ fault = "none" /\ lpc[r] = "syncCheck"
    /\ LoopMoves(r, IF isRunning THEN "syncCreate" ELSE "select", "cur")

\* e.Sync called by the loop: createTransaction.
LoopSyncCreate(r) ==
    /\ fault = "none" /\ lpc[r] = "syncCreate"
    /\ LoopMoves(r, "syncExec", "cur")

\* e.Sync called by the loop returns.
LoopSyncFinish(r) ==
    /\ fault = "none" /\ lpc[r] = "syncExec"
    /\ LoopMoves(r, "select", "cur")

\* ---- monitorFileChanges of run r
MonitorMoves(r, to) ==
    /\ mpc' = [mpc EXCEPT ![r] = to]
    /\ elast' = NoCall
    /\ UNCHANGED <<isRunning, isPaused, stopClosed, pauseClosed, ctxDone,
                   currentState, stateRow, fault, cpc, runs, lpc, lch, wUp,
                   wChClosed>>
    /\ EngineOnly

\* select: case <-ctx.Done() / case <-e.stopChan.
MonitorExit(r) ==
    /\ fault = "none" /\ mpc[r] = "select"
    /\ ctxDone \/ stopClosed
    /\ MonitorMoves(r, "done")

\* select: the running watcher hands over an event (or an error) and
\* handleFileChange reads e.isPaused and logs it.
MonitorEvent(r) ==
    /\ fault = "none" /\ mpc[r] = "select"
    /\ wUp /\ ~wChClosed
    /\ MonitorMoves(r, "select")

\* select: the receive finds the watcher's channel closed.
MonitorClosed(r) ==
    /\ fault = "none" /\ mpc[r] = "select"
    /\ wChClosed
    /\ MonitorMoves(r, "done")

EngineInit ==
    /\ isRunning = FALSE
    /\ isPaused = FALSE
    /\ stopClosed = FALSE
    /\ pauseClosed = FALSE
    /\ ctxDone = FALSE
    /\ currentState = [op |-> "", running |-> FALSE, paused |-> FALSE]
    /\ stateRow = SavedRow(currentState)
    /\ fault = "none"
    /\ cpc = [t \in Callers |-> "idle"]
    /\ runs = 0
    /\ lpc = [r \in Runs |-> "none"]
    /\ lch = [r \in Runs |-> "cur"]
    /\ mpc = [r \in Runs |-> "none"]
    /\ wUp = FALSE
    /\ wChClosed = FALSE
    /\ elast = NoCall

\* ------------------------------------------------------ local file watcher
TimerIds == 1..MaxBurst
NoTimer == 0
NoPath == "-"
NoOp == "-"
NoHash == 0
Hashes == 1..MaxHash
SendPanic == "send on closed channel"
ClosePanic == "close of closed channel"

\* The operations of raw fsnotify events, by the change type
\* pulsePointMapEventType gives them.
RawOps == {"create", "modify", "delete", "unknown"}

\* The watcher's steps leave the queue and the engine alone.
WatcherOnly == UNCHANGED <<qvars, evars, pvars, vvars, fvars, hvars, rvars, svars, tvars, mvars, gvars>>

\* <-pw.ctx.Done() is ready: pw.ctx is the constructor's context, which
\* pw.cancel() cancels, until Start replaces it by the caller's.
PwCtxDone == IF pwCtxGiven THEN pwGivenCancelled ELSE pwOwnCancelled

\* time.AfterFunc: the first timer not yet created.
FreeTimers == {i \in TimerIds : timers[i].st = "unused"}

SetTimer(i, st) == [timers EXCEPT ![i].st = st]

\* addPathInternal returns at once for a path pw.paths holds, which is the
\* case from the first Start on.
PathsAdded == pwIsRunning \/ pwStopChanClosed

\* Start(ctx, paths); given: ctx # nil.  The first Start walks the tree and
\* caches the hash of every file it finds.
WatcherStart(given) ==
    /\ pwFault = "none" /\ wspc = "idle"
    /\ ~pwIsRunning
    /\ pwCtxGiven' = (pwCtxGiven \/ given)
    /\ fileHashes' = IF PathsAdded
                       THEN fileHashes
                       ELSE [p \in Paths |->
                               IF disk[p] # NoHash THEN disk[p]
                                                   ELSE fileHashes[p]]
    /\ wmon' = <<"select", NoPath, NoOp>>
    /\ pwIsRunning' = TRUE
    /\ pwStopped' = FALSE
    /\ UNCHANGED <<pwStopChanClosed, pwOwnCancelled, pwGivenCancelled, wspc,
                   timers, debounceTimers, eventsChan, eventsChanClosed,
                   errorsChan, fsClosed, pwFault, disk, emitted>>
    /\ WatcherOnly

\* Stop: the guard, pw.cancel() and close(pw.stopChan).
WatcherStopBegin ==
    /\ pwFault = "none" /\ wspc = "idle"
    /\ pwIsRunning
    /\ pwOwnCancelled' = TRUE
    /\ pwStopped' = TRUE
    /\ IF pwStopChanClosed
         THEN /\ pwFault' = ClosePanic
              /\ UNCHANGED <<pwStopChanClosed, wspc>>
         ELSE /\ pwStopChanClosed' = TRUE
              /\ wspc' = "timers"
              /\ UNCHANGED pwFault
    /\ UNCHANGED <<pwIsRunning, pwCtxGiven, pwGivenCancelled, wmon, timers,
                   debounceTimers, eventsChan, eventsChanClosed, errorsChan,
                   fsClosed, disk, fileHashes, emitted>>
    /\ WatcherOnly

\* Stop, under debounceMu: timer.Stop() on every timer of the map, then a new
\* map.  Stop() has no effect on a timer that has fired.
WatcherStopTimers ==
    /\ pwFault = "none" /\ wspc = "timers"
    /\ timers' = [i \in TimerIds |->
                    IF /\ timers[i].st = "armed"
                       /\ debounceTimers[timers[i].path] = i
                      THEN [timers[i] EXCEPT !.st = "stopped"]
                      ELSE timers[i]]
    /\ debounceTimers' = [p \in Paths |-> NoTimer]
    /\ wspc' = "wait"
    /\ UNCHANGED <<pwIsRunning, pwStopChanClosed, pwCtxGiven, pwOwnCancelled,
                   pwGivenCancelled, wmon, eventsChan, eventsChanClosed,
                   errorsChan, fsClosed, pwStopped, pwFault, disk, fileHashes,
                   emitted>>
    /\ WatcherOnly

\* Stop: pw.wg.Wait() returns when the monitor has; pw.watcher.Close().
WatcherStopWait ==
    /\ pwFault = "none" /\ wspc = "wait"
    /\ wmon[1] \in {"none", "done"}
    /\ fsClosed' = TRUE
    /\ wspc' = "close"
    /\ UNCHANGED <<pwIsRunning, pwStopChanClosed, pwCtxGiven, pwOwnCancelled,
                   pwGivenCancelled, wmon, timers, debounceTimers, eventsChan,
                   eventsChanClosed, errorsChan, pwStopped, pwFault, disk,
                   fileHashes, emitted>>
    /\ WatcherOnly

\* Stop: close(pw.eventsChan), close(pw.errorsChan), isRunning = false.
WatcherStopClose ==
    /\ pwFault = "none" /\ wspc = "close"
    /\ IF eventsChanClosed
         THEN /\ pwFault' = ClosePanic
              /\ UNCHANGED <<eventsChanClosed, pwIsRunning, wspc>>
         ELSE /\ eventsChanClosed' = TRUE
              /\ pwIsRunning' = FALSE
              /\ wspc' = "idle"
              /\ UNCHANGED pwFault
    /\ UNCHANGED <<pwStopChanClosed, pwCtxGiven, pwOwnCancelled,
                   pwGivenCancelled, wmon, timers, debounceTimers, eventsChan,
                   errorsChan, fsClosed, pwStopped, disk, fileHashes, emitted>>
    /\ WatcherOnly

\* The caller of Start cancels the context it passed.
WatcherCancelGiven ==
    /\ pwFault = "none"
    /\ pwCtxGiven /\ ~pwGivenCancelled
    /\ pwGivenCancelled' = TRUE
    /\ UNCHANGED <<pwIsRunning, pwStopChanClosed, pwCtxGiven, pwOwnCancelled,
                   wspc, wmon, timers, debounceTimers, eventsChan,
                   eventsChanClosed, errorsChan, fsClosed, pwStopped, pwFault,
                   disk, fileHashes, emitted>>
    /\ WatcherOnly

\* What a step of pulsePointMonitor leaves alone besides wmon.
MonitorKeeps ==
    /\ UNCHANGED <<pwIsRunning, pwStopChanClosed, pwCtxGiven, pwOwnCancelled,
                   pwGivenCancelled, wspc, eventsChan, eventsChanClosed,
                   fsClosed, pwStopped, pwFault, fileHashes, emitted>>
    /\ WatcherOnly

\* pulsePointMonitor's select: <-pw.ctx.Done(), <-pw.stopChan, or one of the
\* fsnotify channels found closed.
WatcherMonitorReturn ==
    /\ pwFault = "none" /\ wmon[1] = "select"
    /\ PwCtxDone \/ pwStopChanClosed \/ fsClosed
    /\ wmon' = <<"done", NoPath, NoOp>>
    /\ UNCHANGED <<timers, debounceTimers, errorsChan, disk>>
    /\ MonitorKeeps

\* The file system changes path p (to content h; NoHash: the file is gone)
\* and pulsePointMonitor's select receives the event for it from
\* pw.watcher.Events.  At most cap events are received.
WatcherMonitorRecv(p, op, h, cap) ==
    /\ pwFault = "none" /\ wmon[1] = "select"
    /\ ~fsClosed
    /\ Cardinality(TimerIds \ FreeTimers) < cap
    /\ (op = "delete") <=> (h = NoHash)
    /\ disk' = [disk EXCEPT ![p] = h]
    /\ wmon' = <<"handle", p, op>>
    /\ UNCHANGED <<timers, debounceTimers, errorsChan>>
    /\ MonitorKeeps

\* The timer created last for path p, NoTimer if there is none.
LastTimer(p) ==
    LET mine == {i \in TimerIds : timers[i].st # "unused" /\ timers[i].path = p}
    IN  IF mine = {} THEN NoTimer
        ELSE CHOOSE i \in mine : \A j \in mine : j <= i

\* pulsePointHandleEvent, under debounceMu: stop the path's timer and put a
\* new one in its place.  cont records that the timer of the path's previous
\* event had not fired yet.
pulsePointHandleEvent ==
    /\ pwFault = "none" /\ wmon[1] = "handle"
    /\ LET p == wmon[2]
           old == debounceTimers[p]
           new == CHOOSE i \in FreeTimers : \A j \in FreeTimers : i <= j
           halted == IF old # NoTimer /\ timers[old].st = "armed"
                       THEN SetTimer(old, "stopped")
                       ELSE timers
           prev == LastTimer(p)
       IN  /\ timers' = [halted EXCEPT ![new] =
                            [path |-> p, type |-> wmon[3], hash |-> NoHash,
                             st |-> "armed", late |-> FALSE,
                             cont |-> (prev # NoTimer
                                       /\ timers[prev].st = "armed")]]
           /\ debounceTimers' = [debounceTimers EXCEPT ![p] = new]
    /\ wmon' = <<"select", NoPath, NoOp>>
    /\ UNCHANGED <<errorsChan, disk>>
    /\ MonitorKeeps

\* pulsePointMonitor's select: an error from pw.watcher.Errors.
WatcherMonitorError ==
    /\ pwFault = "none" /\ wmon[1] = "select"
    /\ ~fsClosed
    /\ wmon' = <<"sendErr", NoPath, NoOp>>
    /\ UNCHANGED <<timers, debounceTimers, errorsChan, disk>>
    /\ MonitorKeeps

\* pw.errorsChan <- err, which waits for room in the buffer.
WatcherMonitorErrorSend ==
    /\ pwFault = "none" /\ wmon[1] = "sendErr"
    /\ errorsChan < errorsCap
    /\ errorsChan' = errorsChan + 1
    /\ wmon' = <<"select", NoPath, NoOp>>
    /\ UNCHANGED <<timers, debounceTimers, disk>>
    /\ MonitorKeeps

\* What a step of a timer's callback leaves alone besides timers.
TimerKeeps ==
    /\ UNCHANGED <<pwIsRunning, pwStopChanClosed, pwCtxGiven, pwOwnCancelled,
                   pwGivenCancelled, wspc, wmon, eventsChanClosed, errorsChan,
                   fsClosed, pwStopped, disk>>
    /\ WatcherOnly

\* The debounce period of timer i is over: its callback starts.
TimerFire(i) ==
    /\ pwFault = "none" /\ timers[i].st = "armed"
    /\ timers' = SetTimer(i, "firing")
    /\ UNCHANGED <<debounceTimers, eventsChan, pwFault, fileHashes, emitted>>
    /\ TimerKeeps

\* pulsePointProcessEvent up to the hash cache: an unknown operation returns;
\* otherwise the path is stat'ed, the change event is built and, for a file
\* that exists and an event that is no delete, the content is hashed.
pulsePointProcessEvent(i) ==
    /\ pwFault = "none" /\ timers[i].st = "firing"
    /\ LET p == timers[i].path
           type == timers[i].type
           hashed == disk[p] # NoHash /\ type # "delete"
       IN  timers' =
             IF type = "unknown"
               THEN SetTimer(i, "cleanup")
               ELSE [timers EXCEPT
                       ![i].late = pwStopped,
                       ![i].hash = IF hashed THEN disk[p] ELSE NoHash,
                       ![i].st = IF ~hashed THEN "send"
                                 ELSE IF type = "modify" THEN "check"
                                 ELSE "store"]
    /\ UNCHANGED <<debounceTimers, eventsChan, pwFault, fileHashes, emitted>>
    /\ TimerKeeps

\* pulsePointProcessEvent, under hashMu.RLock: a modify whose hash is the
\* cached one returns without an event.
ProcessCheckHash(i) ==
    /\ pwFault = "none" /\ timers[i].st = "check"
    /\ timers' = SetTimer(i, IF fileHashes[timers[i].path] = timers[i].hash
                               THEN "cleanup" ELSE "store")
    /\ UNCHANGED <<debounceTimers, eventsChan, pwFault, fileHashes, emitted>>
    /\ TimerKeeps

\* pulsePointProcessEvent, under hashMu.Lock: the hash cache is updated.
ProcessStoreHash(i) ==
    /\ pwFault = "none" /\ timers[i].st = "store"
    /\ fileHashes' = [fileHashes EXCEPT ![timers[i].path] = timers[i].hash]
    /\ timers' = SetTimer(i, "send")
    /\ UNCHANGED <<debounceTimers, eventsChan, pwFault, emitted>>
    /\ TimerKeeps

\* pulsePointProcessEvent's last select: pw.eventsChan <- changeEvent.
TimerSend(i) ==
    /\ pwFault = "none" /\ timers[i].st = "send"
    /\ IF eventsChanClosed
         THEN /\ pwFault' = SendPanic
              /\ UNCHANGED <<timers, eventsChan, emitted>>
         ELSE /\ Len(eventsChan) < eventsCap
              /\ eventsChan' = Append(eventsChan,
                                 [path |-> timers[i].path,
                                  type |-> timers[i].type,
                                  hash |-> timers[i].hash,
                                  late |-> timers[i].late])
              /\ emitted' = [emitted EXCEPT ![timers[i].path] = timers[i].hash]
              /\ timers' = SetTimer(i, "cleanup")
              /\ UNCHANGED pwFault
    /\ UNCHANGED <<debounceTimers, fileHashes>>
    /\ TimerKeeps

\* pulsePointProcessEvent's last select: <-pw.ctx.Done().
TimerGiveUp(i) ==
    /\ pwFault = "none" /\ timers[i].st = "send"
    /\ PwCtxDone
    /\ timers' = SetTimer(i, "cleanup")
    /\ UNCHANGED <<debounceTimers, eventsChan, pwFault, fileHashes, emitted>>
    /\ TimerKeeps

\* The callback's end, under debounceMu: delete(pw.debounceTimers, name).
TimerCleanup(i) ==
    /\ pwFault = "none" /\ timers[i].st = "cleanup"
    /\ debounceTimers' = [debounceTimers EXCEPT ![timers[i].path] = NoTimer]
    /\ timers' = SetTimer(i, "done")
    /\ UNCHANGED <<eventsChan, pwFault, fileHashes, emitted>>
    /\ TimerKeeps

\* A reader of Watch() takes the next event.
EventsRecv ==
    /\ pwFault = "none" /\ eventsChan # <<>>
    /\ eventsChan' = Tail(eventsChan)
    /\ UNCHANGED <<pwIsRunning, pwStopChanClosed, pwCtxGiven, pwOwnCancelled,
                   pwGivenCancelled, wspc, wmon, timers, debounceTimers,
                   eventsChanClosed, errorsChan, fsClosed, pwStopped, pwFault,
                   disk, fileHashes, emitted>>
    /\ WatcherOnly

\* A reader of Errors() takes the next error.
ErrorsRecv ==
    /\ pwFault = "none" /\ errorsChan > 0
    /\ errorsChan' = errorsChan - 1
    /\ UNCHANGED <<pwIsRunning, pwStopChanClosed, pwCtxGiven, pwOwnCancelled,
                   pwGivenCancelled, wspc, wmon, timers, debounceTimers,
                   eventsChan, eventsChanClosed, fsClosed, pwStopped, pwFault,
                   disk, fileHashes, emitted>>
    /\ WatcherOnly

\* NewPulsePointWatcher, over a tree in which every path is a file.
WatcherInit ==
    /\ pwIsRunning = FALSE
    /\ pwStopChanClosed = FALSE
    /\ pwCtxGiven = FALSE
    /\ pwOwnCancelled = FALSE
    /\ pwGivenCancelled = FALSE
    /\ wspc = "idle"
    /\ wmon = <<"none", NoPath, NoOp>>
    /\ timers = [i \in TimerIds |->
                   [path |-> NoPath, type |-> NoOp, hash |-> NoHash,
                    st |-> "unused", late |-> FALSE, cont |-> FALSE]]
    /\ debounceTimers = [p \in Paths |-> NoTimer]
    /\ eventsChan = <<>>
    /\ eventsChanClosed = FALSE
    /\ errorsChan = 0
    /\ fsClosed = FALSE
    /\ pwStopped = FALSE
    /\ pwFault = "none"
    /\ disk = [p \in Paths |-> 1]
    /\ fileHashes = [p \in Paths |-> NoHash]
    /\ emitted = [p \in Paths |-> NoHash]

\* ------------------------------------------------------------ sync pipeline
\* p.phases, in the order NewPulsePointPipeline lists them.
Phases == <<"collection", "analysis", "execution", "verification">>
PhaseIds == 1..Len(Phases)
NoPhase == 0
\* PipelineConfig.MaxRetries as NewPulsePointPipeline sets it.
MaxRetries == 3
NoTx == [status |-> "none", ended |-> FALSE]

\* The pipeline's steps leave the queue, the engine and the watcher alone.
PipelineOnly == UNCHANGED <<qvars, evars, wvars, vvars, fvars, hvars, rvars, svars, tvars, mvars, gvars>>

\* The phases whose Execute can return an error: the execution phase when
\* the strategy's Sync fails, the verification phase on a file that does not
\* verify.  Collection and analysis always return a nil error.
CanFail == {3, 4}

\* The retry loop sleeps and tries again with one retry too many.
RetryAllowedOneMore(retry) == retry <= MaxRetries

\* The retry loop: after a failed attempt number retry (from 0) the phase is
\* tried again when retry < MaxRetries.
RetryAllowed(retry) == retry < MaxRetries

\* The phase loop skips a phase.
NextPhaseSkips(i) == IF i + 2 <= Len(Phases) THEN i + 2 ELSE NoPhase

\* The phase loop: the phase after phase i, NoPhase after the last.
NextPhase(i) == IF i < Len(Phases) THEN i + 1 ELSE NoPhase

\* Sync: createTransaction, then pipeline.Execute up to the phase loop.
TxCreate ==
    /\ ppc = "idle"
    /\ tx' = [status |-> "running", ended |-> FALSE]
    /\ ppc' = "validate"
    /\ pidx' = 1
    /\ pretry' = 0
    /\ pctxDone' = FALSE
    /\ prunning' = {}
    /\ pdone' = {}
    /\ pattempts' = [k \in PhaseIds |-> 0]
    /\ pslept' = [k \in PhaseIds |-> 0]
    /\ perr' = "none"
    /\ UNCHANGED txStore
    /\ PipelineOnly

\* The caller's context is cancelled, or the pipeline's deadline passes.
PipelineCancel ==
    /\ ppc \notin {"idle", "ended"}
    /\ ~pctxDone
    /\ pctxDone' = TRUE
    /\ UNCHANGED <<ppc, pidx, pretry, prunning, pdone, pattempts, pslept, perr,
                   tx, txStore>>
    /\ PipelineOnly

\* phase.Validate(input): the transaction Sync passes is never nil, so every
\* phase's validation succeeds.
PhaseValidate ==
    /\ ppc = "validate"
    /\ ppc' = "start"
    /\ pretry' = 0
    /\ UNCHANGED <<pidx, pctxDone, prunning, pdone, pattempts, pslept, perr,
                   tx, txStore>>
    /\ PipelineOnly

\* phase.Execute(ctx, input) is called.
PhaseStart ==
    /\ ppc = "start"
    /\ prunning' = prunning \cup {pidx}
    /\ pattempts' = [pattempts EXCEPT ![pidx] = @ + 1]
    /\ ppc' = "exec"
    /\ UNCHANGED <<pidx, pretry, pctxDone, pdone, pslept, perr, tx, txStore>>
    /\ PipelineOnly

\* phase.Execute returns, with a nil error (ok) or with an error.
PhaseFinish(ok) ==
    /\ ppc = "exec"
    /\ ok \/ pidx \in CanFail
    /\ prunning' = prunning \ {pidx}
    /\ IF ok
         THEN /\ pdone' = pdone \cup {pidx}
              /\ IF NextPhase(pidx) # NoPhase
                   THEN /\ pidx' = NextPhase(pidx)
                        /\ ppc' = "validate"
                   ELSE /\ ppc' = "ended"
                        /\ UNCHANGED pidx
              /\ UNCHANGED perr
         ELSE /\ IF RetryAllowed(pretry)
                   THEN /\ ppc' = "sleep"
                        /\ UNCHANGED perr
                   ELSE /\ ppc' = "ended"
                        /\ perr' = Phases[pidx]
              /\ UNCHANGED <<pidx, pdone>>
    /\ UNCHANGED <<pretry, pctxDone, pattempts, pslept, tx, txStore>>
    /\ PipelineOnly

\* time.Sleep(p.config.RetryDelay), then the next turn of the retry loop.
RetrySleep ==
    /\ ppc = "sleep"
    /\ pslept' = [pslept EXCEPT ![pidx] = @ + 1]
    /\ pretry' = pretry + 1
    /\ ppc' = "start"
    /\ UNCHANGED <<pidx, pctxDone, prunning, pdone, pattempts, perr, tx,
                   txStore>>
    /\ PipelineOnly

\* Sync after pipeline.Execute has returned: the status and the end time are
\* set and saveTransaction is called; saved: SaveTransaction returned nil.
TxFinish(saved) ==
    /\ ppc = "ended"
    /\ tx' = [status |-> IF perr = "none" THEN "completed" ELSE "failed",
              ended |-> TRUE]
    /\ txStore' = IF saved THEN tx' ELSE txStore
    /\ ppc' = "idle"
    /\ UNCHANGED <<pidx, pretry, pctxDone, prunning, pdone, pattempts, pslept,
                   perr>>
    /\ PipelineOnly

\* No transaction yet.
PipelineInit ==
    /\ ppc = "idle"
    /\ pidx = NoPhase
    /\ pretry = 0
    /\ pctxDone = FALSE
    /\ prunning = {}
    /\ pdone = {}
    /\ pattempts = [k \in PhaseIds |-> 0]
    /\ pslept = [k \in PhaseIds |-> 0]
    /\ perr = "none"
    /\ tx = NoTx
    /\ txStore = NoTx

\* ------------------------------------------------------ verification phase
\* What provider.GetMetadata gives for a file that it cannot look up.
MetaErr == MaxHash + 1

\* The verification phase's steps leave everything else alone.
VerifyOnly == UNCHANGED <<qvars, evars, wvars, pvars, fvars, hvars, rvars, svars, tvars, mvars, gvars>>

\* wg.Wait() returns without waiting for the checks.
WaitReturnsEarly == TRUE

\* wg.Wait(): every goroutine started has called wg.Done.
WaitReturns == \A f \in Paths : vgo[f] \in {"none", "done"}

\* A check counts an error: GetMetadata failed, or the file state's local
\* hash differs from the remote metadata's hash.
CheckFails(f) == vremote[f] = MetaErr \/ vstates[f].localHash # vremote[f]

\* VerificationPhase.Execute is called with input.FileStates = states; remote
\* is what the provider holds for each path during the phase.
VerifyBegin(states, remote) ==
    /\ vpc \in {"idle", "returned"}
    /\ vpc' = "loop"
    /\ vtodo' = Paths
    /\ vstates' = states
    /\ vremote' = remote
    /\ vgo' = [f \in Paths |-> "none"]
    /\ verifyErrors' = 0
    /\ vresult' = "none"
    /\ VerifyOnly

\* One turn of the range over input.FileStates (in map order): a file that
\* is not Synced is skipped, for a Synced one wg.Add(1) and the goroutine.
VerifyRange(f) ==
    /\ vpc = "loop"
    /\ f \in vtodo
    /\ vtodo' = vtodo \ {f}
    /\ vgo' = IF vstates[f].status = "synced"
                THEN [vgo EXCEPT ![f] = "spawned"] ELSE vgo
    /\ vpc' = IF vtodo' = {} THEN "wait" ELSE "loop"
    /\ UNCHANGED <<vstates, vremote, verifyErrors, vresult>>
    /\ VerifyOnly

\* The goroutine of file f: GetMetadata and the comparison of the hashes.
CheckGetMetadata(f) ==
    /\ vgo[f] = "spawned"
    /\ vgo' = [vgo EXCEPT ![f] = IF CheckFails(f) THEN "count" ELSE "done"]
    /\ UNCHANGED <<vpc, vtodo, vstates, vremote, verifyErrors, vresult>>
    /\ VerifyOnly

\* The goroutine of file f: verifyErrors++ under mu, then wg.Done.
CheckCount(f) ==
    /\ vgo[f] = "count"
    /\ verifyErrors' = verifyErrors + 1
    /\ vgo' = [vgo EXCEPT ![f] = "done"]
    /\ UNCHANGED <<vpc, vtodo, vstates, vremote, vresult>>
    /\ VerifyOnly

\* wg.Wait() returns and the phase returns its result.
VerifyWait ==
    /\ vpc = "wait"
    /\ WaitReturns
    /\ vresult' = IF verifyErrors > 0 THEN "fail" ELSE "ok"
    /\ vpc' = "returned"
    /\ UNCHANGED <<vtodo, vstates, vremote, vgo, verifyErrors>>
    /\ VerifyOnly

\* The phase has not been called.
VerifyInit ==
    /\ vpc = "idle"
    /\ vtodo = {}
    /\ vstates = [f \in Paths |-> [status |-> "pending", localHash |-> NoHash]]
    /\ vremote = [f \in Paths |-> NoHash]
    /\ vgo = [f \in Paths |-> "none"]
    /\ verifyErrors = 0
    /\ vresult = "none"

\* -------------------------------------------------------------- file states
\* FileSyncStatus.
FileStatuses == {"pending", "synced", "modified", "conflict", "error",
                 "deleted", "ignored", "uploading", "downloading"}

\* The file states' operations leave everything else alone.
FileOnly == UNCHANGED <<qvars, evars, wvars, pvars, vvars, hvars, rvars, svars, tvars, mvars, gvars>>

NewFileState == [status |-> "pending", localHash |-> NoHash,
                 remoteHash |-> NoHash, hasConflict |-> FALSE]

\* A state is made anew for the path (the pipeline after a phase, the
\* repository for a path it does not know).
FileStateNew(p) ==
    /\ fileStates' = [fileStates EXCEPT ![p] = NewFileState]
    /\ FileOnly

UpdateLocalInfo(p, hash) ==
    /\ fileStates' = [fileStates EXCEPT
         ![p].localHash = hash,
         ![p].status = IF hash # fileStates[p].remoteHash THEN "modified"
                       ELSE @]
    /\ FileOnly

UpdateRemoteInfo(p, hash) ==
    /\ fileStates' = [fileStates EXCEPT
         ![p].remoteHash = hash,
         ![p].status = IF fileStates[p].localHash = hash THEN "synced"
                       ELSE @]
    /\ FileOnly

SetError(p) ==
    /\ fileStates' = [fileStates EXCEPT ![p].status = "error"]
    /\ FileOnly

SetConflict(p) ==
    /\ fileStates' = [fileStates EXCEPT ![p].status = "conflict",
                                        ![p].hasConflict = TRUE]
    /\ FileOnly

ResolveConflict(p) ==
    /\ fileStates' = [fileStates EXCEPT ![p].status = "synced",
                                        ![p].hasConflict = FALSE]
    /\ FileOnly

\* StateRepository.UpdateFileStatus.
UpdateFileStatus(p, status) ==
    /\ fileStates' = [fileStates EXCEPT ![p].status = status]
    /\ FileOnly

FileInit == fileStates = [p \in Paths |-> NewFileState]

\* -------------------------------------------------------- conflict resolver
\* interfaces.ResolutionStrategy.
Strategies == {"keep_local", "keep_remote", "keep_both", "merge", "skip",
               "interactive"}
NoRule == "none"

\* The resolver's configuration together with what determineStrategy reads
\* of the conflict: rule is the Strategy of the first rule of config.Rules
\* that matches the conflict (NoRule: none matches).
ResolverInputs ==
    [rule : Strategies \cup {NoRule}, autoResolve : BOOLEAN,
     preferNewer : BOOLEAN, preferLarger : BOOLEAN,
     localNewer : BOOLEAN, localLarger : BOOLEAN,
     default : Strategies]

determineStrategy(c) ==
    IF c.rule # NoRule THEN c.rule
    ELSE IF c.autoResolve /\ c.preferNewer
      THEN (IF c.localNewer THEN "keep_local" ELSE "keep_remote")
    ELSE IF c.autoResolve /\ c.preferLarger
      THEN (IF c.localLarger THEN "keep_local" ELSE "keep_remote")
    ELSE c.default

\* The Strategy field of the resolution keepLocal, keepRemote, keepBoth,
\* merge and skip return: merge always ends in keepBoth.
ResolutionOf(strategy) == IF strategy = "merge" THEN "keep_both" ELSE strategy

\* ResolveConflict is called from outside.
ResolveCall(c) ==
    /\ rpc \in {"idle", "returned", "overflow"}
    /\ rpc' = "resolve"
    /\ rcfg' = c
    /\ rdepth' = 1
    /\ rres' = "none"
    /\ UNCHANGED <<qvars, evars, wvars, pvars, vvars, fvars, hvars, svars, tvars, mvars, gvars>>

\* The body of ResolveConflict: determineStrategy and the switch.  The
\* interactive case calls ResolveConflict again; beyond MaxDepth nested calls
\* the stack limit is hit.
ResolveBody ==
    /\ rpc = "resolve"
    /\ IF determineStrategy(rcfg) = "interactive"
         THEN /\ rdepth' = IF rdepth < MaxDepth THEN rdepth + 1 ELSE rdepth
              /\ rpc' = IF rdepth < MaxDepth THEN "resolve" ELSE "overflow"
              /\ UNCHANGED rres
         ELSE /\ rres' = ResolutionOf(determineStrategy(rcfg))
              /\ rpc' = "returned"
              /\ UNCHANGED rdepth
    /\ UNCHANGED rcfg
    /\ UNCHANGED <<qvars, evars, wvars, pvars, vvars, fvars, hvars, svars, tvars, mvars, gvars>>

ResolverInit ==
    /\ rpc = "idle"
    /\ rcfg = [rule |-> NoRule, autoResolve |-> FALSE, preferNewer |-> TRUE,
               preferLarger |-> FALSE, localNewer |-> FALSE,
               localLarger |-> FALSE, default |-> "keep_local"]
    /\ rdepth = 0
    /\ rres = "none"

\* --------------------------------------------------------- sync strategies
SyncPaths == {"a"}
StrategyNames == {"one-way", "mirror", "backup"}
\* The object store maps a remote path to the hash of its content: NoHash for
\* a zero-byte file, Absent for a path that is not there.
Absent == MaxHash + 1

\* Remote paths: the path itself, generateVersionedPath's name_v<ts>.ext, and
\* the markers <path>.deleted_<ts> and <path>.moved_<ts>.
Orig(p) == <<p, "", 0>>
generateVersionedPath(p, ts) == <<p, "v", ts>>
DeletedMarker(p, ts) == <<p, "deleted", ts>>
MovedMarker(p, ts) == <<p, "moved", ts>>
RemoteKeys ==
    {Orig(p) : p \in SyncPaths}
      \cup {<<p, k, ts>> : p \in SyncPaths, k \in {"v", "deleted", "moved"},
                           ts \in 1..MaxSecond}

\* interfaces.ChangeEvent as the strategies read it.
Changes == [type : {"create", "modify", "delete", "rename"},
            path : SyncPaths, oldPath : SyncPaths, hash : Hashes]
NoChange == [type |-> "none", path |-> ""]

\* provider.Upload of content hash to key; ok: the provider accepts it.
\* The outcome of a call is the store, whether the caller gets an error, and
\* whether provider.Delete was called.
Upload(f, key, hash, ok) ==
    [files |-> IF ok THEN [f EXCEPT ![key] = hash] ELSE f,
     err |-> ~ok, del |-> FALSE]

\* MockDriveProvider.Delete: a path that is there is removed, a missing path
\* is the error "path not found".
Delete(f, key) ==
    IF f[key] # Absent
      THEN [files |-> [f EXCEPT ![key] = Absent], err |-> FALSE, del |-> TRUE]
      ELSE [files |-> f, err |-> TRUE, del |-> TRUE]

\* deleteFile of the one-way and of the mirror strategy.  The mirror strategy
\* forgives errors that IsNotFoundError accepts (a *PulseError with status
\* 404); the provider's "path not found" is a plain error, so it is returned
\* by both.
deleteFile(f, p) == Delete(f, Orig(p))

uploadFile(f, c, ok) == Upload(f, Orig(c.path), c.hash, ok)

\* One-way and mirror processChange; preserve: config.PreserveDeleted (always
\* false for the mirror strategy, which has no such test).
MirrorProcess(f, c, preserve, ok) ==
    CASE c.type \in {"create", "modify"} -> uploadFile(f, c, ok)
      [] c.type = "delete" ->
           IF preserve THEN [files |-> f, err |-> FALSE, del |-> FALSE]
           ELSE deleteFile(f, c.path)
      [] c.type = "rename" ->
           LET d == deleteFile(f, c.oldPath)
           IN  IF d.err THEN d
               ELSE [uploadFile(d.files, c, ok) EXCEPT !.del = TRUE]

\* backupFile: metaOk says whether GetMetadata answers; the upload goes to
\* the versioned path when GetMetadata finds the path, else to the path.
backupFile(f, c, ts, ok, metaOk) ==
    LET remotePath == IF metaOk /\ f[Orig(c.path)] # Absent
                        THEN generateVersionedPath(c.path, ts)
                        ELSE Orig(c.path)
    IN  Upload(f, remotePath, c.hash, ok)

\* markDeleted written with a delete of the remote path.
markDeletedRemoves(f, c, ts, mkOk) == Delete(f, Orig(c.path))

\* markDeleted / markMoved: a zero-byte marker is uploaded; a failed upload
\* is only logged.
markDeleted(f, c, ts, mkOk) ==
    [Upload(f, DeletedMarker(c.path, ts), NoHash, mkOk) EXCEPT !.err = FALSE]

markMoved(f, c, ts, mkOk) ==
    [Upload(f, MovedMarker(c.oldPath, ts), NoHash, mkOk) EXCEPT !.err = FALSE]

\* processChange of the backup strategy.
BackupProcess(f, c, ts, ok, mkOk, metaOk) ==
    CASE c.type \in {"create", "modify"} -> backupFile(f, c, ts, ok, metaOk)
      [] c.type = "delete" -> markDeleted(f, c, ts, mkOk)
      [] c.type = "rename" ->
           backupFile(markMoved(f, c, ts, mkOk).files, c, ts, ok, metaOk)

processChange(f, c, ok, mkOk, metaOk) ==
    IF sname = "backup" THEN BackupProcess(f, c, sts, ok, mkOk, metaOk)
    ELSE MirrorProcess(f, c, spreserve, ok)

\* Sync of strategy name is called, up to its loop over the changes.  ts is
\* the second the call starts in (backupTimestamp), lcl the local tree.
StrategySyncBegin(name, ts, lcl, preserve) ==
    /\ spc \in {"idle", "returned"}
    /\ ts >= sts
    /\ name = "backup" => preserve
    /\ name = "mirror" => ~preserve
    /\ name # "mirror" => lcl = {}
    /\ spc' = "changes"
    /\ sname' = name
    /\ sts' = ts
    /\ slocal' = lcl
    /\ spreserve' = preserve
    /\ sres' = [success |-> TRUE, errors |-> FALSE, conflicts |-> FALSE]
    /\ sdel' = FALSE
    /\ slast' = NoChange
    /\ UNCHANGED files
    /\ UNCHANGED <<qvars, evars, wvars, pvars, vvars, fvars, hvars, rvars, tvars, mvars, gvars>>

\* One turn of Sync's loop over the changes: processChange, and the error
\* appended to result.Errors.  The backup strategy leaves result.Success.
StrategyChange(c, ok, mkOk, metaOk) ==
    /\ spc = "changes"
    /\ LET r == processChange(files, c, ok, mkOk, metaOk)
       IN  /\ files' = r.files
           /\ sdel' = (sdel \/ r.del)
           /\ sres' = IF r.err
                        THEN [sres EXCEPT !.errors = TRUE,
                                          !.success = (sname = "backup" /\ @)]
                        ELSE sres
    /\ slast' = [type |-> c.type, path |-> c.path]
    /\ UNCHANGED <<spc, sname, sts, slocal, spreserve>>
    /\ UNCHANGED <<qvars, evars, wvars, pvars, vvars, fvars, hvars, rvars, tvars, mvars, gvars>>

\* The loop is over.  The mirror strategy calls cleanupRemote, which lists
\* the remote (listOk) and deletes nothing; then Sync returns the result.
StrategyFinish(listOk) ==
    /\ spc = "changes"
    /\ spc' = "returned"
    /\ sres' = IF sname = "mirror" /\ ~listOk
                 THEN [sres EXCEPT !.success = FALSE] ELSE sres
    /\ UNCHANGED <<files, sname, sts, slocal, spreserve, sdel, slast>>
    /\ UNCHANGED <<qvars, evars, wvars, pvars, vvars, fvars, hvars, rvars, tvars, mvars, gvars>>

StrategyInit ==
    /\ files = [k \in RemoteKeys |-> Absent]
    /\ spc = "idle"
    /\ sname = "one-way"
    /\ sts = 1
    /\ slocal = {}
    /\ spreserve = FALSE
    /\ sres = [success |-> TRUE, errors |-> FALSE, conflicts |-> FALSE]
    /\ sdel = FALSE
    /\ slast = NoChange

\* ------------------------------------------------- transaction store
\* Transaction ids.  The bucket's cursor walks the keys in byte order, which
\* for ids is the order of the numbers; EmptyId is the id "".
TxIds == 1..MaxTx
EmptyId == 0
\* time.Time{} (the zero EndTime of a transaction that has not ended).
ZeroTime == 0
TxStatuses == {"running", "completed"}
Transactions ==
    [id : TxIds \cup {EmptyId}, endTime : {ZeroTime} \cup (1..MaxTs),
     status : TxStatuses]
NoTransaction == [id |-> EmptyId, endTime |-> ZeroTime, status |-> "nil"]
NoData == <<>>

\* json.Marshal / json.Unmarshal of a SyncTransaction: the encoding lists
\* the fields in the struct's order.
MarshalTx(t) == <<t.id, t.endTime, t.status>>
UnmarshalTx(data) == [id |-> data[1], endTime |-> data[2], status |-> data[3]]

RECURSIVE KeysDescending(_, _)
\* The keys of the bucket from cursor.Last() along cursor.Prev().
KeysDescending(db, k) ==
    IF k = 0 THEN <<>>
    ELSE IF db[k] # NoData THEN <<k>> \o KeysDescending(db, k - 1)
         ELSE KeysDescending(db, k - 1)

\* torder without id.
RECURSIVE Without(_, _)
Without(seq, id) ==
    IF seq = <<>> THEN <<>>
    ELSE IF Head(seq) = id THEN Without(Tail(seq), id)
         ELSE <<Head(seq)>> \o Without(Tail(seq), id)

\* Elements offset+1 .. offset+limit of seq: the loop of ListTransactions
\* skips offset entries and stops at limit entries or at the end.
Page(seq, offset, limit) ==
    SubSeq(seq, offset + 1, Min(Len(seq), offset + limit))

TxOnly ==
    UNCHANGED <<qvars, evars, wvars, pvars, vvars, fvars, hvars, rvars, svars, mvars, gvars>>

\* SaveTransaction(t): an empty id is a validation error; else the encoding
\* is put under the id and a cleanupOldTransactions goroutine is started.
SaveTransaction(t) ==
    /\ tclean < MaxTx
    /\ IF t.id = EmptyId
         THEN /\ tpc' = "rejected"
              /\ UNCHANGED <<txdb, tclean, torder>>
         ELSE /\ tpc' = "saved"
              /\ txdb' = [txdb EXCEPT ![t.id] = MarshalTx(t)]
              /\ tclean' = tclean + 1
              /\ torder' = Append(Without(torder, t.id), t.id)
    /\ tsaved' = t
    /\ tgot' = NoTransaction
    /\ tlist' = <<>>
    /\ targs' = <<0, 0>>
    /\ TxOnly

\* GetTransaction(id) for the id of the transaction saved last.
GetTransaction ==
    /\ tpc \in {"saved", "got"}
    /\ tpc' = "got"
    /\ tgot' = IF txdb[tsaved.id] = NoData THEN NoTransaction
               ELSE UnmarshalTx(txdb[tsaved.id])
    /\ UNCHANGED <<txdb, tclean, tsaved, tlist, targs, torder>>
    /\ TxOnly

\* ListTransactions(offset, limit).
ListTransactions(offset, limit) ==
    /\ tpc # "idle"
    /\ tpc' = "listed"
    /\ tlist' = Page(KeysDescending(txdb, MaxTx), offset, limit)
    /\ targs' = <<offset, limit>>
    /\ tgot' = NoTransaction
    /\ UNCHANGED <<txdb, tclean, tsaved, torder>>
    /\ TxOnly

\* A cleanupOldTransactions goroutine runs Cleanup(before), before being
\* time.Now() minus the retention period at that moment: every stored
\* transaction whose EndTime is before that instant is deleted.
cleanupOldTransactions(before) ==
    /\ tclean > 0
    /\ tclean' = tclean - 1
    /\ LET gone == {k \in TxIds : /\ txdb[k] # NoData
                                  /\ UnmarshalTx(txdb[k]).endTime < before}
       IN  /\ txdb' = [k \in TxIds |-> IF k \in gone THEN NoData ELSE txdb[k]]
           /\ torder' = SelectSeq(torder, LAMBDA k : k \notin gone)
    /\ UNCHANGED <<tpc, tsaved, tgot, tlist, targs>>
    /\ TxOnly

TxInit ==
    /\ txdb = [k \in TxIds |-> NoData]
    /\ tclean = 0
    /\ tpc = "idle"
    /\ tsaved = NoTransaction
    /\ tgot = NoTransaction
    /\ tlist = <<>>
    /\ targs = <<0, 0>>
    /\ torder = <<>>

\* --------------------------------------------------- ignore patterns
\* File names and patterns are sequences of characters.
IgnoreOnly ==
    UNCHANGED <<qvars, evars, wvars, pvars, vvars, fvars, hvars, rvars, svars,
                tvars, mvars>>

\* "d/a.t", "b.x", "c.y".
WatchedFiles ==
    {<<"d", "/", "a", ".", "t">>, <<"b", ".", "x">>, <<"c", ".", "y">>}
\* "*.t", "x".
Patterns == {<<"*", ".", "t">>, <<"x">>}
NoEmit == <<>>

\* filepath.Base for a path that does not end in a separator.
RECURSIVE Base(_)
Base(path) ==
    IF \E i \in 1..Len(path) : path[i] = "/"
      THEN Base(Tail(path))
      ELSE path

\* filepath.Match: "*" is any run of non-separator characters, "?" is one
\* of them, any other character is itself.
RECURSIVE Match(_, _)
Match(pattern, name) ==
    IF pattern = <<>> THEN name = <<>>
    ELSE IF Head(pattern) = "*"
      THEN \E k \in 0..Len(name) :
              /\ \A i \in 1..k : name[i] # "/"
              /\ Match(Tail(pattern), SubSeq(name, k + 1, Len(name)))
    ELSE IF name = <<>> THEN FALSE
    ELSE IF Head(pattern) = "?"
      THEN Head(name) # "/" /\ Match(Tail(pattern), Tail(name))
    ELSE Head(name) = Head(pattern) /\ Match(Tail(pattern), Tail(name))

\* strings.Contains.
Contains(str, sub) ==
    \E i \in 0..(Len(str) - Len(sub)) : SubSeq(str, i + 1, i + Len(sub)) = sub

\* pulsePointShouldIgnore with pw.ignorePatterns = patterns.
pulsePointShouldIgnore(patterns, path) ==
    \/ \E pattern \in patterns :
          \/ Match(pattern, Base(path))
          \/ Contains(path, pattern)
    \/ LET base == Base(path)
       IN  \/ base \in {<<".", "D", "S", "_", "S", "t", "o", "r", "e">>,
                        <<".", "g", "i", "t">>}
           \/ (base # <<>> /\ Head(base) = "~")

\* SetIgnorePatterns: the field is assigned without a lock.
SetIgnorePatterns(patterns) ==
    /\ patterns # ignorePatterns
    /\ ignorePatterns' = patterns
    /\ staleView' = ignorePatterns
    /\ handledAfter' = {}
    /\ UNCHANGED <<armed, lastEmit>>
    /\ IgnoreOnly

\* pulsePointHandleEvent for a raw event on path.  The monitor goroutine
\* reads pw.ignorePatterns with nothing ordering the read after the write of
\* SetIgnorePatterns: it gets the present value or the one before it.
IgnoreHandleEvent(path, view) ==
    /\ view \in {ignorePatterns, staleView}
    /\ IF pulsePointShouldIgnore(view, path)
         THEN UNCHANGED <<armed, handledAfter>>
         ELSE /\ armed' = armed \cup {path}
              /\ handledAfter' = handledAfter \cup {path}
    /\ UNCHANGED <<ignorePatterns, staleView, lastEmit>>
    /\ IgnoreOnly

\* The debounce timer of path fires: pulsePointProcessEvent sends the change
\* event; it does not look at the patterns.
IgnoreTimerFire(path) ==
    /\ path \in armed
    /\ armed' = armed \ {path}
    /\ lastEmit' = <<path, ignorePatterns, path \in handledAfter>>
    /\ handledAfter' = handledAfter \ {path}
    /\ UNCHANGED <<ignorePatterns, staleView>>
    /\ IgnoreOnly

\* The reader of Watch() takes the event.
IgnoreWatchRecv ==
    /\ lastEmit # NoEmit
    /\ lastEmit' = NoEmit
    /\ UNCHANGED <<ignorePatterns, staleView, armed, handledAfter>>
    /\ IgnoreOnly

IgnoreInit ==
    /\ ignorePatterns = {}
    /\ staleView = {}
    /\ armed = {}
    /\ lastEmit = NoEmit
    /\ handledAfter = {}

\* ------------------------------------------------------- engine metrics
MetricsOnly ==
    UNCHANGED <<qvars, evars, wvars, pvars, vvars, fvars, hvars, rvars, svars,
                tvars, gvars>>

\* Fractions <<n, d>> with d > 0, compared by cross multiplication.
SameFraction(a, b) == a[1] * b[2] = b[1] * a[2]

\* recordFailure that forgets the total.
recordFailureNoTotal ==
    /\ TotalSyncs < MaxSyncs
    /\ FailedSyncs' = FailedSyncs + 1
    /\ UNCHANGED <<TotalSyncs, SuccessfulSyncs, AverageSpeed, observed,
                   speedSum, speedCount>>
    /\ MetricsOnly

\* recordSuccess(result), one critical section of m.mu.  timed: the result's
\* duration is positive; mbps: bytes / 2^20 / seconds.
recordSuccess(timed, mbps) ==
    /\ TotalSyncs < MaxSyncs
    /\ TotalSyncs' = TotalSyncs + 1
    /\ SuccessfulSyncs' = SuccessfulSyncs + 1
    /\ AverageSpeed' =
         IF ~timed THEN AverageSpeed
         ELSE IF AverageSpeed[1] = 0 THEN <<mbps, 1>>
         ELSE <<AverageSpeed[1] * (SuccessfulSyncs' - 1) + mbps * AverageSpeed[2],
                AverageSpeed[2] * SuccessfulSyncs'>>
    /\ speedSum' = IF timed THEN speedSum + mbps ELSE speedSum
    /\ speedCount' = IF timed THEN speedCount + 1 ELSE speedCount
    /\ UNCHANGED <<FailedSyncs, observed>>
    /\ MetricsOnly

\* recordFailure, one critical section of m.mu.
recordFailure ==
    /\ TotalSyncs < MaxSyncs
    /\ TotalSyncs' = TotalSyncs + 1
    /\ FailedSyncs' = FailedSyncs + 1
    /\ UNCHANGED <<SuccessfulSyncs, AverageSpeed, observed, speedSum, speedCount>>
    /\ MetricsOnly

\* getMetrics: a copy of the counters under the read lock.
getMetrics ==
    /\ observed' = [total |-> TotalSyncs, successful |-> SuccessfulSyncs,
                    failed |-> FailedSyncs, average |-> AverageSpeed]
    /\ UNCHANGED <<TotalSyncs, SuccessfulSyncs, FailedSyncs, AverageSpeed,
                   speedSum, speedCount>>
    /\ MetricsOnly

MetricsInit ==
    /\ TotalSyncs = 0
    /\ SuccessfulSyncs = 0
    /\ FailedSyncs = 0
    /\ AverageSpeed = <<0, 1>>
    /\ observed = [total |-> 0, successful |-> 0, failed |-> 0,
                   average |-> <<0, 1>>]
    /\ speedSum = 0
    /\ speedCount = 0

Init ==
    /\ QueueInit /\ EngineInit /\ WatcherInit /\ PipelineInit
    /\ VerifyInit /\ FileInit /\ ResolverInit /\ StrategyInit /\ TxInit
    /\ MetricsInit /\ IgnoreInit

CallerStep(t) ==
    \/ StartWatcher(t)
    \/ StartState(t)
    \/ StopClose(t)
    \/ StopWatcher(t)
    \/ StopFlags(t)
    \/ StopState(t)
    \/ SyncCreate(t)
    \/ SyncFinish(t)

LoopStep(r) ==
    \/ LoopExit(r)
    \/ LoopSelectPause(r)
    \/ LoopWaitEval(r)
    \/ LoopWaitRecv(r)
    \/ LoopSelectTick(r)
    \/ LoopTick(r)
    \/ LoopSyncCheck(r)
    \/ LoopSyncCreate(r)
    \/ LoopSyncFinish(r)

MonitorStep(r) ==
    \/ MonitorExit(r)
    \/ MonitorEvent(r)
    \/ MonitorClosed(r)

CallerNext(t) ==
    \/ StartCall(t)
    \/ StopCall(t)
    \/ Pause(t)
    \/ Resume(t)
    \/ SyncCall(t)
    \/ CallerStep(t)

\* The engine used by two goroutines, with its loops.
EngineNext ==
    \/ \E t \in Callers : CallerNext(t)
    \/ \E r \in Runs : LoopStep(r) \/ MonitorStep(r)
    \/ CancelCtx

EngineSpec == Init /\ [][EngineNext]_vars

\* The engine's calls alone, made by two goroutines.
LifecycleNext == \E t \in Callers : CallerNext(t)

LifecycleSpec == Init /\ [][LifecycleNext]_vars

\* The engine used by one goroutine, with its loops.
SoloNext ==
    \/ CallerNext("c1")
    \/ \E r \in Runs : LoopStep(r) \/ MonitorStep(r)
    \/ CancelCtx

\* The scheduler runs every goroutine that can take a step, and a select
\* picks each ready case again and again.
SoloFairness ==
    /\ WF_vars(CallerStep("c1"))
    /\ \A r \in Runs :
         /\ WF_vars(LoopStep(r))
         /\ SF_vars(LoopExit(r))
         /\ WF_vars(MonitorStep(r))
         /\ SF_vars(MonitorExit(r))

SoloFairSpec == Init /\ [][SoloNext]_vars /\ SoloFairness

\* The same without assumptions on the scheduler.
SoloSpec == Init /\ [][SoloNext]_vars

\* The queue with one mirror goroutine at a time and the full event alphabet.
QueueNext ==
    \/ \E e \in Events : Add(e, 1)
    \/ FlushTake
    \/ FlushProcessOk
    \/ FlushProcessFail
    \/ FlushUnmark(1)
    \/ PersistSnapshot
    \/ PersistWrite

QueueSpec == Init /\ [][QueueNext]_vars

\* The queue with concurrent mirror goroutines and process restarts.
DurableNext ==
    \/ \E e \in PlainEvents : Add(e, MaxPersist)
    \/ FlushTake
    \/ FlushProcessOk
    \/ FlushProcessFail
    \/ FlushUnmark(MaxPersist)
    \/ PersistSnapshot
    \/ PersistWrite
    \/ KillRestart

DurableSpec == Init /\ [][DurableNext]_vars

\* The queue until Stop has returned: adds, ticks, mirror goroutines, Stop.
ShutdownNext ==
    \/ \E e \in PlainEvents : Add(e, 1)
    \/ FlushTake
    \/ FinalFlushTake
    \/ FlushProcessOk
    \/ FlushProcessFail
    \/ FlushUnmark(1)
    \/ PersistSnapshot
    \/ PersistWrite
    \/ ProcessorExitEmpty
    \/ ProcessorExit
    \/ QueueStopCancel
    \/ QueueStopReturn

ShutdownSpec == Init /\ [][ShutdownNext]_vars

\* The queue filled by creations of more paths than it has room for, with
\* failing flushes and restarts.
CapacityNext ==
    \/ \E e \in CreateEvents : Add(e, 1)
    \/ FlushTake
    \/ FlushProcessOk
    \/ FlushProcessFail
    \/ FlushUnmark(1)
    \/ PersistSnapshot
    \/ PersistWrite
    \/ KillRestart

CapacitySpec == Init /\ [][CapacityNext]_vars

\* Conflicts resolved one after the other, under any configuration.
ResolverNext ==
    \/ \E c \in ResolverInputs : ResolveCall(c)
    \/ ResolveBody

ResolverSpec == Init /\ [][ResolverNext]_vars

\* Syncs of the three strategies, one after the other, on one object store.
StrategyNext ==
    \/ \E name \in StrategyNames, ts \in 1..MaxSecond, lcl \in SUBSET SyncPaths,
          preserve \in BOOLEAN : StrategySyncBegin(name, ts, lcl, preserve)
    \/ \E c \in Changes, ok \in BOOLEAN, mkOk \in BOOLEAN, metaOk \in BOOLEAN :
          StrategyChange(c, ok, mkOk, metaOk)
    \/ \E listOk \in BOOLEAN : StrategyFinish(listOk)

StrategySpec == Init /\ [][StrategyNext]_vars

\* Backup syncs, one after the other, on one object store.
BackupNext ==
    \/ \E ts \in 1..MaxSecond : StrategySyncBegin("backup", ts, {}, TRUE)
    \/ \E c \in Changes, ok \in BOOLEAN, mkOk \in BOOLEAN, metaOk \in BOOLEAN :
          StrategyChange(c, ok, mkOk, metaOk)
    \/ StrategyFinish(TRUE)

BackupSpec == Init /\ [][BackupNext]_vars

\* The transactions bucket under saves, reads, listings and the cleanup
\* goroutines the saves start.
TxNext ==
    \/ \E t \in Transactions : SaveTransaction(t)
    \/ GetTransaction
    \/ \E offset \in 0..MaxTx, limit \in 0..MaxTx :
          ListTransactions(offset, limit)
    \/ \E before \in 1..(MaxTs + 1) : cleanupOldTransactions(before)

TxSpec == Init /\ [][TxNext]_vars

\* Syncs succeeding and failing in any order, and readers of the metrics.
MetricsNext ==
    \/ \E timed \in BOOLEAN, mbps \in 0..MaxSpeed : recordSuccess(timed, mbps)
    \/ recordFailure
    \/ getMetrics

MetricsSpec == Init /\ [][MetricsNext]_vars

\* A running watcher whose ignore patterns are set and set again while files
\* change.
IgnoreNext ==
    \/ \E patterns \in SUBSET Patterns : SetIgnorePatterns(patterns)
    \/ \E path \in WatchedFiles, view \in SUBSET Patterns :
          IgnoreHandleEvent(path, view)
    \/ \E path \in WatchedFiles : IgnoreTimerFire(path)
    \/ IgnoreWatchRecv

IgnoreSpec == Init /\ [][IgnoreNext]_vars

\* One step of the callback of timer i.
TimerStep(i) ==
    \/ TimerFire(i)
    \/ pulsePointProcessEvent(i)
    \/ ProcessCheckHash(i)
    \/ ProcessStoreHash(i)
    \/ TimerSend(i)
    \/ TimerGiveUp(i)
    \/ TimerCleanup(i)

\* The watcher with its callers, its monitor, its timers and its readers;
\* files are rewritten with new content.
WatcherNext ==
    \/ \E given \in BOOLEAN : WatcherStart(given)
    \/ WatcherStopBegin
    \/ WatcherStopTimers
    \/ WatcherStopWait
    \/ WatcherStopClose
    \/ WatcherCancelGiven
    \/ WatcherMonitorReturn
    \/ \E p \in Paths, h \in Hashes : WatcherMonitorRecv(p, "modify", h, MaxRaw)
    \/ pulsePointHandleEvent
    \/ WatcherMonitorError
    \/ WatcherMonitorErrorSend
    \/ \E i \in TimerIds : TimerStep(i)
    \/ EventsRecv
    \/ ErrorsRecv

WatcherSpec == Init /\ [][WatcherNext]_vars

\* A running watcher and bursts of events on one path: no Stop, no notify
\* errors.
DebounceNext ==
    \/ WatcherStart(TRUE)
    \/ WatcherCancelGiven
    \/ WatcherMonitorReturn
    \/ \E op \in {"create", "modify"}, h \in Hashes :
         WatcherMonitorRecv("a", op, h, MaxBurst)
    \/ pulsePointHandleEvent
    \/ \E i \in TimerIds : TimerStep(i)
    \/ EventsRecv

DebounceSpec == Init /\ [][DebounceNext]_vars

\* A running watcher over one file that is created, rewritten and removed.
HashNext ==
    \/ WatcherStart(TRUE)
    \/ WatcherCancelGiven
    \/ WatcherMonitorReturn
    \/ \E op \in {"create", "modify", "delete"}, h \in Hashes \cup {NoHash} :
         WatcherMonitorRecv("a", op, h, MaxRaw)
    \/ pulsePointHandleEvent
    \/ \E i \in TimerIds : TimerStep(i)
    \/ EventsRecv

HashSpec == Init /\ [][HashNext]_vars

\* One step of pulsePointMonitor.
WatcherMonitorStep ==
    \/ WatcherMonitorReturn
    \/ pulsePointHandleEvent
    \/ WatcherMonitorErrorSend

\* A running watcher that receives file events and notify errors; the
\* readers of its channels read when they like.
NotifyNext ==
    \/ WatcherStart(TRUE)
    \/ WatcherCancelGiven
    \/ \E h \in Hashes : WatcherMonitorRecv("a", "modify", h, MaxRaw)
    \/ WatcherMonitorError
    \/ WatcherMonitorStep
    \/ \E i \in TimerIds : TimerStep(i)
    \/ EventsRecv
    \/ ErrorsRecv

\* The monitor and the timer callbacks run whenever they can; nothing makes
\* the readers read.
NotifyFairness ==
    /\ WF_vars(WatcherMonitorStep)
    /\ \A i \in TimerIds : WF_vars(TimerStep(i))

NotifyFairSpec == Init /\ [][NotifyNext]_vars /\ NotifyFairness

\* Manual syncs one after the other, each through the whole pipeline.
PipelineNext ==
    \/ TxCreate
    \/ PipelineCancel
    \/ PhaseValidate
    \/ PhaseStart
    \/ \E ok \in BOOLEAN : PhaseFinish(ok)
    \/ RetrySleep
    \/ \E saved \in BOOLEAN : TxFinish(saved)

PipelineSpec == Init /\ [][PipelineNext]_vars

\* One verification phase after the other, on any file states and any remote.
VerifyNext ==
    \/ \E states \in [Paths -> [status : {"synced", "modified"},
                                localHash : Hashes \cup {NoHash}]],
          remote \in [Paths -> Hashes \cup {NoHash, MetaErr}] :
          VerifyBegin(states, remote)
    \/ \E f \in Paths : VerifyRange(f)
    \/ \E f \in Paths : CheckGetMetadata(f)
    \/ \E f \in Paths : CheckCount(f)
    \/ VerifyWait

VerifySpec == Init /\ [][VerifyNext]_vars

\* Any sequence of the file states' operations.
FileNext ==
    \E p \in Paths :
       \/ FileStateNew(p)
       \/ \E hash \in Hashes \cup {NoHash} : UpdateLocalInfo(p, hash)
       \/ \E hash \in Hashes \cup {NoHash} : UpdateRemoteInfo(p, hash)
       \/ SetError(p)
       \/ SetConflict(p)
       \/ ResolveConflict(p)
       \/ \E status \in FileStatuses : UpdateFileStatus(p, status)

FileSpec == Init /\ [][FileNext]_vars

\* ------------------------------------------------- claims on the change queue

Acked ==
    [p \in QueuePaths |->
        IF items[p] # NoEvent THEN items[p]
        ELSE IF qpc = "process" THEN batch[p]
        ELSE NoEvent]

\* C2: whenever the process is killed and restarted, the pending set loaded
\* from the bucket is exactly the set of events that add has accepted and no
\* flush has processed successfully (also after a failed process call).
C2_RestartLoadsAcked ==
    [][epoch' # epoch => items' = Acked]_vars

\* C4: when process(batch) has failed, at the end of the flush every path of
\* the batch holds the survivor the deduplication table names between the
\* batch event and the events admitted for that path during the flush (the
\* batch event itself when none was admitted).
C4_FailedFlushKeepsDedup ==
    [][(qpc = "unmark" /\ flushErr /\ qpc' = "idle")
       => \A p \in QueuePaths : batch[p] # NoEvent => items'[p] = wanted[p]]_vars

\* C5: once every mirror write that the adds and flushes started has
\* finished, the bucket equals the mirror of the pending set.
C5_BucketMirrorsPending ==
    (qpc = "idle" /\ spawned = 0 /\ snaps = {}) => bucket = Mirror(items)

\* C6: an add that finds max_size entries pending returns the over-capacity
\* error and leaves the pending set unchanged.
C6_FullQueueRejects ==
    [][\A e \in Events :
         (Add(e, 1) /\ Cardinality(PendingPaths(items)) >= maxSize)
         => (qlast' = <<"add", "full">> /\ items' = items)]_vars

\* An add has been rejected by a full queue.
C6_Witness ==
    /\ qlast = <<"add", "full">>
    /\ Cardinality(PendingPaths(items)) = maxSize

\* C21: when a Delete is added for a path whose pending event is a Create
\* (the path not being processed), the pair is dropped: no event for the path
\* is pending afterwards.
C21_CreateDeleteCancels ==
    [][\A e \in Events :
         (/\ Add(e, 1)
          /\ e.type = "delete"
          /\ ~AtCapacity(items)
          /\ e.path \notin processingItems
          /\ items[e.path].type = "create")
         => items'[e.path] = NoEvent]_vars

\* C22: once Stop has returned, for every path that was pending when Stop
\* was called an event of that path has been handed to process since.
C22_StopDrainsPending ==
    qexit = "stopped"
      => \A p \in QueuePaths :
            atStop[p] # NoEvent => \E e \in handed : e.path = p


\* ---------------------------------------------------- claims on the engine

\* C3: while the engine is paused no sync, periodic or manual, creates a
\* transaction.
C3_NoTransactionWhilePaused ==
    [][/\ \A t \in Callers :
            (cpc[t] = "syncCreate" /\ cpc'[t] = "syncExec") => ~isPaused
       /\ \A r \in Runs :
            (lpc[r] = "syncCreate" /\ lpc'[r] = "syncExec") => ~isPaused]_vars

\* C7: no call of Stop, in any lifecycle state and next to any other call of
\* Stop, faults: the stop channel and the watcher are shut down at most once.
C7_StopIdempotent ==
    fault \notin {StopPanic, WatcherPanic}

\* C8: Start is refused with already_running whenever the engine is running,
\* and is accepted only on a stopped engine, which it makes running; Pause is
\* refused unless the engine is running and not paused; Resume is refused
\* unless the engine is running and paused; a refused call leaves isRunning
\* and isPaused as they were.
C8_GuardedLifecycle ==
    [][\A t \in Callers :
         /\ (StartCall(t) /\ isRunning)
            => /\ elast' = <<"start", "already_running">>
               /\ UNCHANGED <<isRunning, isPaused>>
         /\ (StartCall(t) /\ elast' = <<"start", "accepted">>)
            => (~isRunning /\ isRunning')
         /\ (Pause(t) /\ ~(isRunning /\ ~isPaused))
            => /\ elast' \in {<<"pause", "not_running">>,
                              <<"pause", "already_paused">>}
               /\ UNCHANGED <<isRunning, isPaused>>
         /\ (Resume(t) /\ ~(isRunning /\ isPaused))
            => /\ elast' \in {<<"resume", "not_running">>,
                              <<"resume", "not_paused">>}
               /\ UNCHANGED <<isRunning, isPaused>>]_vars

\* A Start has been refused while another Start was still under way, and a
\* Pause has been refused on a paused engine.
C8_Witness ==
    \/ /\ elast = <<"start", "already_running">>
       /\ \E t \in Callers : cpc[t] = "startWatch"
    \/ /\ elast = <<"pause", "already_paused">>
       /\ isRunning /\ isPaused

\* C9: once the stop channel is closed or the context is cancelled, every
\* syncLoop and every monitorFileChanges goroutine terminates.
C9_LoopsTerminate ==
    (stopClosed \/ ctxDone)
      ~> (\/ fault # "none"
          \/ \A r \in Runs : /\ lpc[r] \in {"none", "done"}
                             /\ mpc[r] \in {"none", "done"})

\* ----------------------------------------------------- claims on the watcher

\* C10: no change event built after Stop was called on the watcher is put on
\* the event channel.
C10_NoEventAfterStop ==
    \A k \in 1..Len(eventsChan) : ~eventsChan[k].late

\* C11: a timer whose callback emits a change event is the timer of the last
\* raw event of its burst: no later event for the same path was handled while
\* this timer was still waiting for its debounce period to end.
C11_BurstEmitsLatestOnly ==
    [][\A i \in TimerIds :
         (/\ timers[i].st = "send" /\ timers'[i].st = "cleanup"
          /\ Len(eventsChan') > Len(eventsChan))
         => ~\E j \in TimerIds :
               /\ j > i
               /\ timers[j].path = timers[i].path
               /\ timers[j].cont
               /\ \A k \in TimerIds :
                    (i < k /\ k < j) => timers[k].path # timers[i].path]_vars

\* C12: a Modify event that is emitted for a path carries a content hash
\* other than the hash of the last event emitted for that path.
C12_NoModifyForSameHash ==
    [][\A i \in TimerIds :
         (/\ timers[i].st = "send" /\ timers'[i].st = "cleanup"
          /\ Len(eventsChan') > Len(eventsChan)
          /\ timers[i].type = "modify"
          /\ timers[i].hash # NoHash)
         => emitted[timers[i].path] # timers[i].hash]_vars

\* C13: a notify error the monitor has taken is put on the error channel and
\* the monitor goes back to its select, whatever the readers of the error
\* channel do.
C13_MonitorSurvivesErrors ==
    (wmon[1] = "sendErr") ~> (wmon[1] # "sendErr")

\* ---------------------------------------------------- claims on the pipeline

\* C14: a phase is attempted at most 1 + MaxRetries times, every attempt after
\* the first comes after one more retry delay, and the pipeline returns the
\* error naming a phase exactly when that phase has failed 1 + MaxRetries
\* times.
C14_RetriesBounded ==
    /\ \A k \in PhaseIds :
         /\ pattempts[k] <= 1 + MaxRetries
         /\ pslept[k] = IF pattempts[k] = 0 THEN 0
                        ELSE IF k = pidx /\ ppc = "start" /\ pretry > 0
                          THEN pattempts[k]
                          ELSE pattempts[k] - 1
         /\ (perr = Phases[k])
              <=> (/\ ppc \in {"ended", "idle"}
                   /\ k \notin pdone
                   /\ pattempts[k] = 1 + MaxRetries)

\* The execution phase has failed four times, with three delays in between,
\* and the pipeline has returned its error.
C14_Witness ==
    /\ perr = "execution"
    /\ pattempts[3] = 1 + MaxRetries
    /\ pslept[3] = MaxRetries

\* C15: at most one phase runs at a time, a phase is attempted only when all
\* phases before it have succeeded, and once a phase has failed for good no
\* later phase is attempted.
C15_PhasesInOrder ==
    /\ Cardinality(prunning) <= 1
    /\ \A k \in PhaseIds :
         pattempts[k] > 0 => \A j \in 1..(k - 1) : j \in pdone
    /\ \A k \in PhaseIds :
         perr = Phases[k] => \A j \in PhaseIds : j > k => pattempts[j] = 0

\* The verification phase runs after the three phases before it succeeded,
\* the execution phase only at its second attempt.
C15_Witness ==
    /\ prunning = {4}
    /\ pdone = {1, 2, 3}
    /\ pattempts[3] = 2

\* C16: once the pipeline's context is cancelled or past its deadline, no
\* phase is attempted and no retry delay is slept through.
C16_CancelStopsPipeline ==
    [][(PhaseStart \/ RetrySleep) => ~pctxDone]_vars

\* C17: a transaction starts in status running; it leaves running only for
\* completed or failed, with its end time set and that final record written
\* to the state store; a completed or failed transaction never changes again
\* (the next sync works on a new transaction).
C17_TransactionLifecycle ==
    [][/\ TxCreate => tx'.status = "running" /\ ~tx'.ended
       /\ (tx.status = "running" /\ tx' # tx)
            => /\ tx'.status \in {"completed", "failed"}
               /\ tx'.ended
               /\ txStore' = tx'
       /\ (tx.status \in {"completed", "failed"} /\ tx' # tx) => TxCreate]_vars

\* C18: the verification phase returns only when every check it started has
\* finished and every file marked Synced has been checked; it fails whenever
\* some Synced file's local hash differs from the remote hash, and succeeds
\* only if every Synced file's local hash equals the remote hash.
C18_VerificationJoins ==
    vpc = "returned" =>
       /\ \A f \in Paths : vgo[f] \in {"none", "done"}
       /\ \A f \in Paths : vstates[f].status = "synced" => vgo[f] = "done"
       /\ (\E f \in Paths : /\ vstates[f].status = "synced"
                             /\ vremote[f] # MetaErr
                             /\ vstates[f].localHash # vremote[f])
            => vresult = "fail"
       /\ vresult = "ok"
            => \A f \in Paths : vstates[f].status = "synced"
                                  => vstates[f].localHash = vremote[f]

\* Two Synced files were checked, one agrees with the remote and one does
\* not, and the phase has failed.
C18_Witness ==
    /\ vpc = "returned"
    /\ vresult = "fail"
    /\ verifyErrors = 1
    /\ \A f \in Paths : vstates[f].status = "synced" /\ vgo[f] = "done"
    /\ vstates["a"].localHash = vremote["a"]
    /\ vstates["b"].localHash # vremote["b"]

\* C19: a file state's status is synced exactly when its local hash equals
\* its remote hash and the two are not empty.
C19_SyncedIffHashesAgree ==
    \A p \in Paths :
       (fileStates[p].status = "synced")
         <=> (/\ fileStates[p].localHash = fileStates[p].remoteHash
              /\ fileStates[p].localHash # NoHash)

\* C20: in the engine's sync state a non-empty current operation implies
\* is_running, and is_paused implies is_running.
C20_SyncStateFlags ==
    /\ currentState.op # "" => currentState.running
    /\ currentState.paused => currentState.running

\* --------------------------------------------------- claims on the resolver

\* C23: when the strategy selected for a conflict is interactive, the
\* resolution terminates and what it returns is the resolution of the
\* configured default strategy.
C23_InteractiveDegrades ==
    determineStrategy(rcfg) = "interactive"
      => /\ rpc # "overflow"
         /\ rpc = "returned" => rres = ResolutionOf(rcfg.default)

\* ------------------------------------------------- claims on the strategies

\* C24: the SyncResult a strategy's Sync returns has success = true exactly
\* when its errors list and its conflicts list are empty.
C24_SuccessIffClean ==
    spc = "returned" => (sres.success <=> (~sres.errors /\ ~sres.conflicts))

\* C25: processing a change, the backup strategy never calls the object
\* store's delete and no remote path disappears; a Delete event changes
\* nothing but the zero-byte deletion marker of its path.
C25_BackupNeverDeletes ==
    [][(sname = "backup" /\ spc = "changes" /\ spc' = "changes")
       => /\ ~sdel'
          /\ \A k \in RemoteKeys : files[k] # Absent => files'[k] # Absent
          /\ slast'.type = "delete"
               => \A k \in RemoteKeys :
                     files'[k] # files[k]
                       => /\ k = DeletedMarker(slast'.path, sts)
                          /\ files'[k] = NoHash]_vars

\* A backup sync has processed a Delete event for a path that is on the
\* remote: the marker is there and so is the file.
C25_Witness ==
    /\ sname = "backup"
    /\ ~sdel
    /\ slast.type = "delete"
    /\ files[Orig(slast.path)] \in Hashes
    /\ files[DeletedMarker(slast.path, sts)] = NoHash

\* C26: when the backup strategy processes a Create or Modify for a path
\* that exists remotely, everything stored before (at the path and at every
\* versioned path) is unchanged afterwards.
C26_BackupKeepsVersions ==
    [][(/\ sname = "backup" /\ spc = "changes" /\ spc' = "changes"
        /\ slast'.type \in {"create", "modify"}
        /\ files[Orig(slast'.path)] # Absent)
       => \A k \in RemoteKeys : files[k] # Absent => files'[k] = files[k]]_vars

\* C27: when a mirror sync finishes, no path that is missing from the local
\* tree is left on the remote, and the cleanup has removed no path that is
\* in the local tree.
C27_MirrorCleansRemote ==
    [][(sname = "mirror" /\ spc = "changes" /\ spc' = "returned")
       => /\ \A p \in SyncPaths \ slocal : files'[Orig(p)] = Absent
          /\ \A p \in slocal : files'[Orig(p)] = files[Orig(p)]]_vars

\* C28: a Delete event for a path that is absent from the remote is
\* processed without an error and changes nothing.
C28_DeleteMissingSucceeds ==
    [][(/\ sname \in {"one-way", "mirror"} /\ ~spreserve
        /\ spc = "changes" /\ spc' = "changes"
        /\ slast'.type = "delete"
        /\ files[Orig(slast'.path)] = Absent)
       => (sres' = sres /\ files' = files)]_vars

\* C29: GetTransaction of the id of the transaction saved last returns that
\* transaction, whatever its status and end time and whatever the cleanup
\* goroutines did in between.
C29_SaveGetRoundTrip ==
    tpc = "got" => tgot = tsaved

\* C30: ListTransactions(offset, limit) returns the stored transactions from
\* the most recently saved to the least recently saved, without the first
\* offset of them and at most limit of them.
C30_ListReverseInsertion ==
    [][(tpc' = "listed" /\ tclean' = tclean)
       => tlist' = Page([i \in 1..Len(torder) |-> torder[Len(torder) + 1 - i]],
                        targs'[1], targs'[2])]_vars

C32_TotalIsSum ==
    /\ observed.total = observed.successful + observed.failed
    /\ TotalSyncs = SuccessfulSyncs + FailedSyncs

\* Successful and failed syncs have been recorded and then observed.
C32_Witness ==
    /\ observed.successful >= 1
    /\ observed.failed >= 1
    /\ observed.total = TotalSyncs

\* C33: AverageSpeed is the mean of the speeds of the successful syncs
\* recorded so far.
C33_AverageIsMean ==
    speedCount > 0 => SameFraction(AverageSpeed, <<speedSum, speedCount>>)

\* C34: no change event is emitted for a path that the ignore patterns set
\* at that moment match.
C34_NoEventForIgnored ==
    lastEmit # NoEmit => ~pulsePointShouldIgnore(lastEmit[2], lastEmit[1])

\* C35: when a flush ends, an event that add accepted for a path of the
\* batch during the flush, and that the deduplication table prefers to the
\* batch event, is pending; after a failed process call the survivor of the
\* batch event and those events is pending.
C35_AdmittedNotLost ==
    [][(qpc = "unmark" /\ qpc' = "idle")
       => \A p \in QueuePaths :
             (batch[p] # NoEvent /\ (flushErr \/ wanted[p] # batch[p]))
             => items'[p] = wanted[p]]_vars

\* C36: no path is both pending and being processed, and while a flush is
\* under way every path of its batch is pending or being processed.
C36_PendingProcessingDisjoint ==
    /\ \A p \in QueuePaths : ~(items[p] # NoEvent /\ p \in processingItems)
    /\ \A p \in QueuePaths :
          batch[p] # NoEvent => (items[p] # NoEvent \/ p \in processingItems)

\* C37: the pending set never holds more than maxSize entries.
C37_PendingWithinMaxSize ==
    Cardinality(PendingPaths(items)) <= maxSize

\* C38: while the engine is running and not paused, a syncLoop that is
\* alive gets to act on a tick (or the engine is paused or stopped, or the
\* loop ends): it is never left blocked.
C38_ResumedLoopTicks ==
    \A r \in Runs :
       (lpc[r] \notin {"none", "done"} /\ isRunning /\ ~isPaused)
         ~> \/ lpc[r] \in {"tick", "none", "done"}
            \/ isPaused
            \/ ~isRunning
            \/ fault # "none"

\* C39: on an engine that was started again after a stop, while it is
\* running between calls and the context is not cancelled the syncLoop and
\* the monitor of the last start are alive, and no call faults.
C39_RestartWorks ==
    runs >= 2
      => /\ fault = "none"
         /\ (isRunning /\ cpc["c1"] = "idle" /\ ~ctxDone)
              => (lpc[runs] # "done" /\ mpc[runs] # "done")

\* C40: at most one call of Sync is between createTransaction and the return
\* of pipeline.Execute.
C40_OneSyncAtATime ==
    Cardinality({t \in Callers : cpc[t] = "syncExec"})
      + Cardinality({r \in Runs : lpc[r] = "syncExec"}) <= 1

====
